---------------------------- MODULE Spec2Model ----------------------------
(***************************************************************************)
(* A model of voice_transcriber.py: the HotkeyManager edge detector and    *)
(* the VoiceTranscriber recording threads (capture, stop, processing).     *)
(*                                                                         *)
(* SpecKeys : the HotkeyManager alone, a fixed table of registrations,     *)
(*            key events delivered one at a time by the listener thread.   *)
(* SpecApp  : the application: the one registration made by _setup_hotkey  *)
(*            (on_press = start_recording, on_release = stop_recording)    *)
(*            and every interleaving of the threads its callbacks spawn.   *)
(* SpecTimed: one hold of the hotkey, its threads and the recording clock. *)
(* SpecListen: the HotkeyManager with start_listening, stop_listening and  *)
(*            the threads that run its callbacks.                          *)
(* SpecPipe : one run of _process_audio: transcription with its retries,   *)
(*            the cleanup pass and the call of type_text.                  *)
(* SpecType : one call of type_text and its chain of methods.              *)
(* SpecRegister: HotkeyParser and register_hotkey on hotkey strings.       *)
(* SpecSetup: VoiceTranscriber.__init__ with the settings of the           *)
(*            environment.                                                 *)
(* SpecRetry, FairRetry: the retry loops of _initialize_audio and of the   *)
(*            transcription.                                               *)
(* SpecHold, FairHold: one hold from the press to the typed text.          *)
(* SpecClean: clean_text on the characters of a transcript.                *)
(***************************************************************************)
EXTENDS Naturals, Sequences, FiniteSets

VARIABLES
    down,          \* environment: the physical keys currently held
    event,         \* the key event the listener delivered last
    pressed_keys,  \* HotkeyManager.pressed_keys
    hotkeys,       \* HotkeyManager.hotkeys, in insertion order
    log,           \* the callbacks handed to _trigger_callback, in order
    is_recording,  \* VoiceTranscriber.is_recording
    audio_frames,  \* VoiceTranscriber.audio_frames: a list object and its chunks
    stream,        \* VoiceTranscriber.stream: 0 (None) or the stream object
    streams,       \* per stream object: "none", "open" or "closed"
    rec,           \* the _record_audio threads, one per dispatched on_press
    stp,           \* the stop_recording threads, one per dispatched on_release
    proc,          \* the _process_audio threads, one per stop thread at most
    listener,      \* HotkeyManager.listener: 0 (None) or the Listener object
    is_listening,  \* HotkeyManager.is_listening
    listeners,     \* the Listener objects created so far: "running" or "stopped"
    threads,       \* the run_callback threads, one per entry of log
    clock,         \* time.time() - start_time of the capture thread, in reads
    pipe,          \* one run of _process_audio on a saved file
    typing,        \* one call of type_text
    setup,         \* VoiceTranscriber.__init__ and the register_hotkey call
    reads          \* the outcomes of the last reads of the capture thread

mgrVars == <<down, event, pressed_keys, hotkeys, log,
             listener, is_listening, listeners, threads>>
\* What the recording threads leave alone.
otherVars == <<mgrVars, clock, pipe, typing, setup, reads>>
appVars == <<is_recording, audio_frames, stream, streams, rec, stp, proc>>
vars == <<down, event, pressed_keys, hotkeys, log,
          is_recording, audio_frames, stream, streams, rec, stp, proc,
          listener, is_listening, listeners, threads, clock, pipe,
          typing, setup, reads>>

(***************************************************************************)
(* Bounds of the model.                                                    *)
(***************************************************************************)
\* SpecKeys: key events are delivered while fewer callbacks were dispatched.
MaxLog == 4
\* SpecApp: the number of press edges (recording sessions) explored.
MaxSessions == 2
\* SpecApp: MAX_MEMORY_MB counted in chunks: the loop breaks once more than
\* this many chunks were read by one capture thread.
MaxMemoryChunks == 1

\* SpecTimed: record_seconds (MAX_RECORDING_TIME) in units of the clock.
MaxRecordTicks == 1
\* SpecClean: the number of words of a transcript.
MaxWords == 3
\* line 640: stop_after_attempt(3).
TranscribeAttempts == 3
\* line 135: len(keys) > 4.
MaxKeys == 4
\* line 44.
MAX_RETRIES == 3
\* lines 301, 304 and 305: the defaults of the numeric settings.
DefaultChunkSize == 2048
DefaultSampleRate == 16000
DefaultRecordSeconds == 30
\* SpecPipe: the longest text the backend returns, in tokens.
MaxTokens == 3
\* SpecListen: the number of Listener objects start_listening creates.
MaxListeners == 2
\* SpecListen: key events are delivered while fewer callbacks were dispatched.
MaxCallbacks == 2
\* The characters of a text handed to type_text.
MaxChars == 2
\* The '+'-separated parts of a hotkey string.
MaxParts == 5

(***************************************************************************)
(* Keys.  PhysKeys are keys as pynput reports them; _normalize_key maps    *)
(* the left and right variant of a modifier to the modifier.  AppKeys are  *)
(* the keys SpecApp presses: the default hotkey.                           *)
(***************************************************************************)
PhysKeys == {"ctrl_l", "ctrl_r", "alt_l", "x"}

AppKeys == {"alt_l"}

\* A faulty _normalize_key: the right variants of lines 181-187 left out.
_normalize_key_LeftOnly(key) ==
    IF key = "ctrl_l" THEN "ctrl"
    ELSE IF key = "alt_l" THEN "alt"
    ELSE IF key = "shift_l" THEN "shift"
    ELSE IF key = "cmd_l" THEN "cmd"
    ELSE key

_normalize_key(key) ==
    IF key = "ctrl_l" \/ key = "ctrl_r" THEN "ctrl"
    ELSE IF key = "alt_l" \/ key = "alt_r" THEN "alt"
    ELSE IF key = "shift_l" \/ key = "shift_r" THEN "shift"
    ELSE IF key = "cmd_l" \/ key = "cmd_r" THEN "cmd"
    ELSE key

(***************************************************************************)
(* Registrations.  register_hotkey stores, per key set, the two callbacks  *)
(* and is_active = False.                                                  *)
(***************************************************************************)
Registration(keys, on_press, on_release) ==
    [keys |-> keys, on_press |-> on_press, on_release |-> on_release,
     is_active |-> FALSE]

\* The combinations SpecKeys registers: one that contains another, and one
\* disjoint from both.
Combos == {{"ctrl", "x"}, {"ctrl"}, {"alt"}}

\* Tables of one or two registrations with distinct key sets.
RegTables ==
    { <<Registration(c, "on_press", "on_release")>> : c \in Combos }
    \cup
    { <<Registration(p[1], "on_press", "on_release"),
        Registration(p[2], "on_press", "on_release")>> :
        p \in {q \in Combos \X Combos : q[1] # q[2]} }

\* _setup_hotkey with the default HOTKEY: 'alt' -> {Key.alt}.
AppHotkeys ==
    <<Registration({"alt"}, "start_recording", "stop_recording")>>

(***************************************************************************)
(* Edge detection.                                                         *)
(***************************************************************************)
\* A faulty PressEdge: the is_active test of line 211 dropped.
PressEdge_NoActiveTest(h, pk) == h.keys \subseteq pk

\* _check_hotkey_matches, lines 210-211, per registration: the combination
\* is held and the registration is not yet active.
PressEdge(h, pk) == h.keys \subseteq pk /\ ~h.is_active

\* A faulty ReleaseEdge: the is_active test of line 219 dropped.
ReleaseEdge_NoActiveTest(h, pk) == ~(h.keys \subseteq pk)

\* _check_hotkey_releases, lines 219-220, per registration: active and no
\* longer held.
ReleaseEdge(h, pk) == h.is_active /\ ~(h.keys \subseteq pk)

Indices(hk) == [i \in 1..Len(hk) |-> i]

\* The registrations of hk at an edge whose callback is set, in dict order:
\* what one pass over self.hotkeys hands to _trigger_callback.
FiredPress(hk, pk) ==
    LET idx == SelectSeq(Indices(hk),
                   LAMBDA i : PressEdge(hk[i], pk) /\ hk[i].on_press # "None")
    IN  [j \in 1..Len(idx) |-> [reg |-> idx[j], cb |-> "on_press",
                                 fn |-> hk[idx[j]].on_press]]

FiredRelease(hk, pk) ==
    LET idx == SelectSeq(Indices(hk),
                   LAMBDA i : ReleaseEdge(hk[i], pk) /\ hk[i].on_release # "None")
    IN  [j \in 1..Len(idx) |-> [reg |-> idx[j], cb |-> "on_release",
                                 fn |-> hk[idx[j]].on_release]]

\* A faulty _check_hotkey_matches: the loop of line 209 left at the first
\* registration it activates.
_check_hotkey_matches_FirstOnly(hk, pk) ==
    [i \in 1..Len(hk) |->
        IF PressEdge(hk[i], pk) /\ \A j \in 1..(i - 1) : ~PressEdge(hk[j], pk)
        THEN [hk[i] EXCEPT !.is_active = TRUE]
        ELSE hk[i]]

_check_hotkey_matches(hk, pk) ==
    [i \in 1..Len(hk) |->
        IF PressEdge(hk[i], pk) THEN [hk[i] EXCEPT !.is_active = TRUE]
        ELSE hk[i]]

\* A faulty _check_hotkey_releases: line 221 dropped, is_active stays set.
_check_hotkey_releases_KeepActive(hk, pk) == hk

_check_hotkey_releases(hk, pk) ==
    [i \in 1..Len(hk) |->
        IF ReleaseEdge(hk[i], pk) THEN [hk[i] EXCEPT !.is_active = FALSE]
        ELSE hk[i]]

(***************************************************************************)
(* Threads.  A thread is a record with a program counter; "none" is a      *)
(* thread not created yet.                                                 *)
(***************************************************************************)
Sessions == 1..MaxSessions

NoRec == [pc |-> "none", n |-> 0, s |-> 0, exit |-> "none"]

NoStp == [pc |-> "none"]

NoProc == [pc |-> "none", blob |-> <<>>]

NoPipe == [pc |-> "none"]

NumRec == Cardinality({n \in Sessions : rec[n].pc # "none"})

NumStp == Cardinality({n \in Sessions : stp[n].pc # "none"})

CountFn(fired, fn) == Len(SelectSeq(fired, LAMBDA e : e.fn = fn))

\* A faulty run_callback: callback() called by _trigger_callback itself, on
\* the listener thread, inside the handler's "with self.lock".
run_callback_Inline(fired) ==
    [j \in 1..Len(fired) |-> [on |-> "listener", st |-> "running"]]

\* lines 227-233: per fired callback a daemon thread that runs the callback
\* body inside try/except.
run_callback(fired) ==
    [j \in 1..Len(fired) |-> [on |-> "daemon", st |-> "running"]]

\* _trigger_callback for each fired callback: the callback is logged and a
\* daemon thread is started for it.  start_recording only creates and starts
\* the _record_audio thread, so the thread created here stands for both: it
\* sits before the first statement of _record_audio.
_trigger_callback(fired) ==
    LET starts == CountFn(fired, "start_recording")
        stops  == CountFn(fired, "stop_recording")
    IN  /\ log' = log \o fired
        /\ threads' = threads \o run_callback(fired)
        /\ rec' = [n \in Sessions |->
                     IF n > NumRec /\ n <= NumRec + starts
                     THEN [NoRec EXCEPT !.pc = "cleanup"] ELSE rec[n]]
        /\ stp' = [n \in Sessions |->
                     IF n > NumStp /\ n <= NumStp + stops
                     THEN [NoStp EXCEPT !.pc = "clear"] ELSE stp[n]]

(***************************************************************************)
(* The listener's handlers.  pynput calls them one at a time on the        *)
(* listener thread, and each runs under self.lock: one action each.        *)
(***************************************************************************)
_on_press(k) ==
    LET key == _normalize_key(k)
        pk  == pressed_keys \cup {key}
    IN  /\ down' = down \cup {k}
        /\ event' = [kind |-> "press", key |-> k]
        /\ pressed_keys' = pk
        /\ hotkeys' = _check_hotkey_matches(hotkeys, pk)
        /\ _trigger_callback(FiredPress(hotkeys, pk))
        /\ UNCHANGED <<is_recording, audio_frames, stream, streams, proc>>
        /\ UNCHANGED <<listener, is_listening, listeners, clock, pipe, typing, setup, reads>>

_on_release(k) ==
    LET key == _normalize_key(k)
        pk  == pressed_keys \ {key}
    IN  /\ k \in down
        /\ down' = down \ {k}
        /\ event' = [kind |-> "release", key |-> k]
        /\ pressed_keys' = pk
        /\ hotkeys' = _check_hotkey_releases(hotkeys, pk)
        /\ _trigger_callback(FiredRelease(hotkeys, pk))
        /\ UNCHANGED <<is_recording, audio_frames, stream, streams, proc>>
        /\ UNCHANGED <<listener, is_listening, listeners, clock, pipe, typing, setup, reads>>

(***************************************************************************)
(* Initial states: VoiceTranscriber.__init__ (lines 307-312) and           *)
(* HotkeyManager.__init__ with no key held.  SpecKeys: the manager with a  *)
(* table of registrations, under key events.                               *)
(***************************************************************************)
InitApp ==
    /\ is_recording = FALSE
    /\ audio_frames = [id |-> 0, data |-> <<>>]
    /\ stream = 0
    /\ streams = [n \in Sessions |-> "none"]
    /\ rec = [n \in Sessions |-> NoRec]
    /\ stp = [n \in Sessions |-> NoStp]
    /\ proc = [n \in Sessions |-> NoProc]

InitMgr ==
    /\ down = {}
    /\ event = [kind |-> "none", key |-> "none"]
    /\ pressed_keys = {}
    /\ log = <<>>
    /\ threads = <<>>

\* HotkeyManager.__init__, lines 144-145.
InitStopped ==
    /\ listener = 0
    /\ is_listening = FALSE
    /\ listeners = <<>>

\* The manager after the start_listening of run() (line 769).
InitListening ==
    /\ listener = 1
    /\ is_listening = TRUE
    /\ listeners = <<"running">>

\* The capture clock and the pipeline run are not part of SpecKeys, SpecApp
\* and SpecListen.
NoTyping == [pc |-> "none"]
NoSetup == [pc |-> "none"]

\* No call of type_text, no start-up and no read has been followed yet.
InitRest ==
    /\ typing = NoTyping
    /\ setup = NoSetup
    /\ reads = <<>>

InitIdle ==
    /\ clock = 0
    /\ pipe = NoPipe
    /\ InitRest

InitKeys ==
    InitMgr /\ InitListening /\ InitApp /\ InitIdle /\ hotkeys \in RegTables

KeyPress == \E k \in PhysKeys : Len(log) < MaxLog /\ _on_press(k)

KeyRelease == \E k \in PhysKeys : Len(log) < MaxLog /\ _on_release(k)

NextKeys == KeyPress \/ KeyRelease

SpecKeys == InitKeys /\ [][NextKeys]_vars

(***************************************************************************)
(* VoiceTranscriber: the stream teardown shared by all threads.            *)
(***************************************************************************)
\* _cleanup_stream, lines 582-590: with a stream in self.stream, stop and
\* close it (errors are logged, not raised).  The caller goes on to drop
\* (line 591) if there was one, else to after.
CloseStream(st) == [st EXCEPT ![stream] = "closed"]

_cleanup_stream(drop, after) ==
    IF stream # 0
    THEN /\ streams' = CloseStream(streams)
         /\ drop
    ELSE /\ UNCHANGED streams
         /\ after

(***************************************************************************)
(* The capture thread of session n: _record_audio.                         *)
(***************************************************************************)
\* line 500: the teardown of whatever stream is there.
RecCleanup(n) ==
    /\ rec[n].pc = "cleanup"
    /\ _cleanup_stream(rec' = [rec EXCEPT ![n].pc = "drop"],
                       rec' = [rec EXCEPT ![n].pc = "open"])
    /\ UNCHANGED <<otherVars, is_recording, audio_frames, stream, stp, proc>>

\* line 591, within the call of line 500: self.stream = None.
RecDrop(n) ==
    /\ rec[n].pc = "drop"
    /\ stream' = 0
    /\ rec' = [rec EXCEPT ![n].pc = "open"]
    /\ UNCHANGED <<otherVars, is_recording, audio_frames, streams, stp, proc>>

\* lines 502-509: audio.open returns a started stream, or raises (the outer
\* except logs it and the finally block runs).
RecOpen(n) ==
    /\ rec[n].pc = "open"
    /\ \/ /\ streams' = [streams EXCEPT ![n] = "open"]
          /\ stream' = n
          /\ rec' = [rec EXCEPT ![n].pc = "setflag"]
       \/ /\ rec' = [rec EXCEPT ![n].pc = "finally", ![n].exit = "OpenFailed"]
          /\ UNCHANGED <<stream, streams>>
    /\ UNCHANGED <<otherVars, is_recording, audio_frames, stp, proc>>

\* line 511.
RecSetFlag(n) ==
    /\ rec[n].pc = "setflag"
    /\ is_recording' = TRUE
    /\ rec' = [rec EXCEPT ![n].pc = "reset"]
    /\ UNCHANGED <<otherVars, audio_frames, stream, streams, stp, proc>>

\* line 512: a new, empty list object.
RecReset(n) ==
    /\ rec[n].pc = "reset"
    /\ audio_frames' = [id |-> n, data |-> <<>>]
    /\ rec' = [rec EXCEPT ![n].pc = "loop"]
    /\ UNCHANGED <<otherVars, is_recording, stream, streams, stp, proc>>

\* lines 522-535: the while test, the periodic device check (due or not, and
\* its answer, are the environment's), and is_active() on self.stream: a
\* missing stream raises AttributeError, a closed one is not active; both
\* leave the loop.  With an active stream the thread enters read() on it.
RecLoop(n) ==
    /\ rec[n].pc = "loop"
    /\ IF ~is_recording
       THEN rec' = [rec EXCEPT ![n].pc = "finally", ![n].exit = "Stopped"]
       ELSE \/ rec' = [rec EXCEPT ![n].pc = "finally", ![n].exit = "DeviceLost"]
            \/ IF stream = 0 \/ streams[stream] # "open"
               THEN rec' = [rec EXCEPT ![n].pc = "finally",
                                       ![n].exit = "StreamClosed"]
               ELSE rec' = [rec EXCEPT ![n].pc = "read", ![n].s = stream]
    /\ UNCHANGED <<otherVars, is_recording, audio_frames, stream, streams, stp, proc>>

\* lines 544-551, after a chunk was appended: the memory ceiling, then the
\* time limit; timeUp is the outcome of the test of line 549.
MemoryExceeded(estimated_memory) == estimated_memory > MaxMemoryChunks

AfterChunk(n, timeUp) ==
    IF MemoryExceeded(rec[n].n + 1)
    THEN rec' = [rec EXCEPT ![n].pc = "finally", ![n].n = @ + 1, ![n].s = 0,
                            ![n].exit = "MemoryLimit"]
    ELSE IF timeUp
    THEN rec' = [rec EXCEPT ![n].pc = "finally", ![n].n = @ + 1, ![n].s = 0,
                            ![n].exit = "TimeLimit"]
    ELSE rec' = [rec EXCEPT ![n].pc = "loop", ![n].n = @ + 1, ![n].s = 0]

\* lines 538-559: read() on the stream the thread entered it with returns a
\* chunk, which is appended to whatever list self.audio_frames is now, or
\* raises.  "Input overflowed" continues the loop (line 558, back to the
\* while test), any other error leaves it.  A stream closed by another
\* thread during the read may still have delivered the chunk, or makes the
\* read raise.
\* What a call of stream.read() does: it returns a chunk, raises the
\* "Input overflowed" error, or raises another error.
ReadOutcomes == {"data", "overflow", "error"}

\* A faulty except clause: the overflow leaves the loop like any error.
AfterError_AlwaysBreak(n, overflowed) ==
    rec' = [rec EXCEPT ![n].pc = "finally", ![n].s = 0,
                       ![n].exit = IF streams[rec[n].s] = "open"
                                   THEN "StreamError" ELSE "StreamClosed"]

\* lines 553-559: the except clause of the read.
AfterError(n, overflowed) ==
    IF overflowed
    THEN rec' = [rec EXCEPT ![n].pc = "loop", ![n].s = 0]
    ELSE rec' = [rec EXCEPT ![n].pc = "finally", ![n].s = 0,
                            ![n].exit = IF streams[rec[n].s] = "open"
                                        THEN "StreamError" ELSE "StreamClosed"]

\* The read of thread n with a given outcome; the overflow is an error of
\* an open stream.
read_outcome(n, timeUp, outcome) ==
    /\ rec[n].pc = "read"
    /\ outcome = "overflow" => streams[rec[n].s] = "open"
    /\ IF outcome = "data"
       THEN /\ audio_frames' = [audio_frames EXCEPT !.data = Append(@, n)]
            /\ AfterChunk(n, timeUp)
       ELSE /\ AfterError(n, outcome = "overflow")
            /\ UNCHANGED audio_frames
    /\ UNCHANGED <<mgrVars, clock, pipe, typing, setup>>
    /\ UNCHANGED <<is_recording, stream, streams, stp, proc>>

_read(n, timeUp) ==
    /\ \E outcome \in ReadOutcomes : read_outcome(n, timeUp, outcome)
    /\ UNCHANGED reads

\* SpecApp: whether the clock has passed record_seconds when line 549 tests
\* it is the environment's.
RecRead(n) == \E timeUp \in BOOLEAN : _read(n, timeUp)

\* line 568: the finally block.
RecFinally(n) ==
    /\ rec[n].pc = "finally"
    /\ _cleanup_stream(rec' = [rec EXCEPT ![n].pc = "findrop"],
                       rec' = [rec EXCEPT ![n].pc = "done"])
    /\ UNCHANGED <<otherVars, is_recording, audio_frames, stream, stp, proc>>

\* line 591, within the call of line 568.
RecFinallyDrop(n) ==
    /\ rec[n].pc = "findrop"
    /\ stream' = 0
    /\ rec' = [rec EXCEPT ![n].pc = "done"]
    /\ UNCHANGED <<otherVars, is_recording, audio_frames, streams, stp, proc>>

(***************************************************************************)
(* The thread of the n-th on_release: stop_recording.                      *)
(***************************************************************************)
\* line 595.
StopClear(n) ==
    /\ stp[n].pc = "clear"
    /\ is_recording' = FALSE
    /\ stp' = [stp EXCEPT ![n].pc = "cleanup"]
    /\ UNCHANGED <<otherVars, audio_frames, stream, streams, rec, proc>>

\* lines 596-597: after the 0.1 s sleep.
StopCleanup(n) ==
    /\ stp[n].pc = "cleanup"
    /\ _cleanup_stream(stp' = [stp EXCEPT ![n].pc = "drop"],
                       stp' = [stp EXCEPT ![n].pc = "check"])
    /\ UNCHANGED <<otherVars, is_recording, audio_frames, stream, rec, proc>>

\* line 591, within the call of line 597.
StopDrop(n) ==
    /\ stp[n].pc = "drop"
    /\ stream' = 0
    /\ stp' = [stp EXCEPT ![n].pc = "check"]
    /\ UNCHANGED <<otherVars, is_recording, audio_frames, streams, rec, proc>>

\* lines 599-606: no frames, no processing; else the processing thread.
StopCheck(n) ==
    /\ stp[n].pc = "check"
    /\ stp' = [stp EXCEPT ![n].pc = "done"]
    /\ proc' = IF audio_frames.data = <<>> THEN proc
               ELSE [proc EXCEPT ![n].pc = "save"]
    /\ UNCHANGED <<otherVars, is_recording, audio_frames, stream, streams, rec>>

(***************************************************************************)
(* The processing thread started by the n-th stop_recording.               *)
(***************************************************************************)
\* save_audio_to_file, lines 667-668: with no frames in self.audio_frames
\* None is returned and _process_audio returns (lines 613-615).
ProcSave(n) ==
    /\ proc[n].pc = "save"
    /\ proc' = IF audio_frames.data = <<>>
               THEN [proc EXCEPT ![n].pc = "failed"]
               ELSE [proc EXCEPT ![n].pc = "write"]
    /\ UNCHANGED <<otherVars, is_recording, audio_frames, stream, streams, rec, stp>>

\* A faulty save: no frame is written.
SavedFrames_Nothing(frames) == <<>>

\* save_audio_to_file, lines 671-680: the frames self.audio_frames holds now
\* are joined and written.  The file written is what transcribe_audio sends
\* to the backend (line 619); the rest of _process_audio touches none of the
\* state above.
SavedFrames(frames) == frames.data

ProcWrite(n) ==
    /\ proc[n].pc = "write"
    /\ proc' = [proc EXCEPT ![n].pc = "done",
                            ![n].blob = SavedFrames(audio_frames)]
    /\ UNCHANGED <<otherVars, is_recording, audio_frames, stream, streams, rec, stp>>

(***************************************************************************)
(* SpecApp: the application's registration and its threads.                *)
(***************************************************************************)
InitAppKeys ==
    InitMgr /\ InitListening /\ InitApp /\ InitIdle /\ hotkeys = AppHotkeys

AppPress == \E k \in AppKeys : NumRec < MaxSessions /\ _on_press(k)

AppRelease == \E k \in AppKeys : _on_release(k)

Capture ==
    \E n \in Sessions :
        \/ RecCleanup(n) \/ RecDrop(n) \/ RecOpen(n) \/ RecSetFlag(n)
        \/ RecReset(n) \/ RecLoop(n) \/ RecRead(n) \/ RecFinally(n)
        \/ RecFinallyDrop(n)

Stop ==
    \E n \in Sessions :
        StopClear(n) \/ StopCleanup(n) \/ StopDrop(n) \/ StopCheck(n)

Process == \E n \in Sessions : ProcSave(n) \/ ProcWrite(n)

NextApp == AppPress \/ AppRelease \/ Capture \/ Stop \/ Process

SpecApp == InitAppKeys /\ [][NextApp]_vars

(***************************************************************************)
(* SpecTimed: one hold of the hotkey, released at some time or never, the  *)
(* threads it starts, and the clock of lines 516 and 549.                  *)
(***************************************************************************)
\* Time passes while the loop runs; start_time was taken at line 516, just
\* before the loop.  The clock is followed until it has passed
\* record_seconds.
Tick ==
    /\ rec[1].pc \in {"loop", "read"}
    /\ clock <= MaxRecordTicks
    /\ clock' = clock + 1
    /\ UNCHANGED <<mgrVars, appVars, pipe, typing, setup, reads>>

\* line 549: time.time() - start_time > self.record_seconds.
TimeUp == clock > MaxRecordTicks

TimedPress == \E k \in AppKeys : NumRec = 0 /\ _on_press(k)

TimedRelease == \E k \in AppKeys : _on_release(k)

\* The outcomes of the last two reads are kept in reads.
LastReads(outcome) ==
    IF Len(reads) < 2 THEN Append(reads, outcome) ELSE <<reads[2], outcome>>

TimedRead ==
    \E outcome \in ReadOutcomes :
        /\ read_outcome(1, TimeUp, outcome)
        /\ reads' = LastReads(outcome)

\* The only capture thread finds no stream at line 500: it has nothing to
\* drop there.
TimedCapture ==
    \/ RecCleanup(1) \/ RecOpen(1) \/ RecSetFlag(1) \/ RecReset(1)
    \/ RecLoop(1) \/ TimedRead \/ RecFinally(1) \/ RecFinallyDrop(1)

TimedStop == StopClear(1) \/ StopCleanup(1) \/ StopDrop(1) \/ StopCheck(1)

TimedProcess == ProcSave(1) \/ ProcWrite(1)

NextTimed ==
    \/ TimedPress \/ TimedRelease \/ Tick
    \/ TimedCapture \/ TimedStop \/ TimedProcess

SpecTimed == InitAppKeys /\ [][NextTimed]_vars

(***************************************************************************)
(* SpecListen: the HotkeyManager with its listener started and stopped,    *)
(* and the threads of its callbacks.                                       *)
(***************************************************************************)
RunningListeners == {l \in 1..Len(listeners) : listeners[l] = "running"}

\* A callback body is running inside a handler, that is on the listener
\* thread and under self.lock.
LockHeld ==
    \E i \in 1..Len(threads) :
        threads[i].on = "listener" /\ threads[i].st = "running"

\* pynput calls the handlers from the thread of a running listener, one
\* event at a time: the next one when the handler of the last has returned.
Delivering == RunningListeners # {} /\ ~LockHeld

DeliverPress(k) == Delivering /\ _on_press(k)

DeliverRelease(k) == Delivering /\ _on_release(k)

\* A faulty start_listening: the test of lines 237-238 dropped.
start_listening_NoTest ==
    /\ listeners' = Append(listeners, "running")
    /\ listener' = Len(listeners) + 1
    /\ is_listening' = TRUE

\* lines 237-245.
start_listening ==
    IF is_listening
    THEN UNCHANGED <<listener, is_listening, listeners>>
    ELSE /\ listeners' = Append(listeners, "running")
         /\ listener' = Len(listeners) + 1
         /\ is_listening' = TRUE

\* A faulty loop of lines 256-257: is_active left as it is.
Deactivate_Nothing(hk) == hk

\* lines 256-257.
Deactivate(hk) == [i \in 1..Len(hk) |-> [hk[i] EXCEPT !.is_active = FALSE]]

\* lines 249-252.
StopListener ==
    /\ listeners' = IF listener # 0
                     THEN [listeners EXCEPT ![listener] = "stopped"]
                     ELSE listeners
    /\ listener' = 0
    /\ is_listening' = FALSE

\* A faulty stop_listening: the keys cleared, then _check_hotkey_releases
\* called in place of the loop of lines 256-257.
stop_listening_AsRelease ==
    /\ event' = [kind |-> "stop",
                 key |-> IF listener = 0 THEN "none" ELSE "listener"]
    /\ StopListener
    /\ pressed_keys' = {}
    /\ hotkeys' = _check_hotkey_releases(hotkeys, {})
    /\ _trigger_callback(FiredRelease(hotkeys, {}))
    /\ UNCHANGED <<down, is_recording, audio_frames, stream, streams, proc,
                   clock, pipe, typing, setup, reads>>

\* stop_listening, lines 247-257.  The event records whether there was a
\* listener to stop.
stop_listening ==
    /\ event' = [kind |-> "stop",
                 key |-> IF listener = 0 THEN "none" ELSE "listener"]
    /\ StopListener
    /\ pressed_keys' = {}
    /\ hotkeys' = Deactivate(hotkeys)
    /\ UNCHANGED <<down, log, threads, appVars, clock, pipe, typing, setup, reads>>

\* The keys SpecListen presses, and its tables: the registrations of ctrl+x
\* and ctrl, alone or together.
ListenKeys == {"ctrl_l", "ctrl_r", "x"}

ListenTables ==
    {h \in RegTables : \A i \in 1..Len(h) : h[i].keys \subseteq {"ctrl", "x"}}

InitListen ==
    InitMgr /\ InitStopped /\ InitApp /\ InitIdle /\ hotkeys \in ListenTables

StartListening ==
    /\ is_listening \/ Len(listeners) < MaxListeners
    /\ start_listening
    /\ event' = [kind |-> "start", key |-> "none"]
    /\ UNCHANGED <<down, pressed_keys, hotkeys, log, threads, appVars,
                   clock, pipe, typing, setup, reads>>

StopListening == stop_listening

ListenPress == \E k \in ListenKeys : Len(log) < MaxCallbacks /\ DeliverPress(k)

ListenRelease ==
    \E k \in ListenKeys : Len(log) < MaxCallbacks /\ DeliverRelease(k)

\* A key changes while no listener runs: no handler is called.
KeyUnheard ==
    \E k \in ListenKeys :
        /\ RunningListeners = {}
        /\ down' = IF k \in down THEN down \ {k} ELSE down \cup {k}
        /\ UNCHANGED <<event, pressed_keys, hotkeys, log, listener,
                       is_listening, listeners, threads, appVars, clock, pipe, typing, setup, reads>>

\* lines 228-231: the callback body returns, or raises and the except
\* clause logs the error; either way the thread ends.  A callback that
\* never returns is a thread that takes neither step.
CallbackReturns ==
    \E i \in 1..Len(threads) :
        /\ threads[i].st = "running"
        /\ threads' = [threads EXCEPT ![i].st = "returned"]
        /\ UNCHANGED <<down, event, pressed_keys, hotkeys, log, listener,
                       is_listening, listeners, appVars, clock, pipe, typing, setup, reads>>

CallbackRaises ==
    \E i \in 1..Len(threads) :
        /\ threads[i].st = "running"
        /\ threads' = [threads EXCEPT ![i].st = "raised"]
        /\ UNCHANGED <<down, event, pressed_keys, hotkeys, log, listener,
                       is_listening, listeners, appVars, clock, pipe, typing, setup, reads>>

NextListen ==
    \/ StartListening \/ StopListening \/ ListenPress \/ ListenRelease
    \/ KeyUnheard \/ CallbackReturns \/ CallbackRaises

SpecListen == InitListen /\ [][NextListen]_vars

(***************************************************************************)
(* Texts.  A text is a sequence of tokens: words, and " " for whitespace   *)
(* beyond the single blank between two words.  The empty sequence is the   *)
(* empty string.  A cleaned text is a sequence of words, joined by single  *)
(* blanks (line 461).                                                      *)
(***************************************************************************)
Words == {"hello", "Um,", "you", "know", "i", "ok."}

Tokens == Words \cup {" "}

Texts == UNION {[1..n -> Tokens] : n \in 0..MaxTokens}

\* line 428: text.split().
split(text) == SelectSeq(text, LAMBDA t : t # " ")

\* lines 437 and 445: w.strip('.,!?;:"()[]{}').lower().
strip_lower(w) ==
    IF w = "Um," THEN "um"
    ELSE IF w = "ok." THEN "ok"
    ELSE w

\* lines 328-332: self.filler_words, each as its sequence of words.
filler_words ==
    {<<"um">>, <<"uh">>, <<"er">>, <<"ah">>, <<"like">>, <<"you", "know">>,
     <<"so">>, <<"well">>, <<"hmm">>, <<"okay">>, <<"right">>, <<"actually">>,
     <<"basically">>, <<"literally">>, <<"i", "mean">>, <<"sort", "of">>,
     <<"kind", "of">>, <<"you", "see">>}

\* lines 442-448: the filler_length words from word i on are a filler.
IsFiller(words, i, filler_length) ==
    /\ i - 1 + filler_length <= Len(words)
    /\ [j \in 1..filler_length |-> strip_lower(words[i + j - 1])]
          \in filler_words

\* lines 434-456: the while loop from word i on, longer phrases first.
RECURSIVE RemoveFillers(_, _)
RemoveFillers(words, i) ==
    IF i > Len(words) THEN <<>>
    ELSE IF IsFiller(words, i, 3) THEN RemoveFillers(words, i + 3)
    ELSE IF IsFiller(words, i, 2) THEN RemoveFillers(words, i + 2)
    ELSE IF IsFiller(words, i, 1) THEN RemoveFillers(words, i + 1)
    ELSE <<words[i]>> \o RemoveFillers(words, i + 1)

\* str.upper() of the first letter.
upper(w) ==
    IF w = "hello" THEN "Hello"
    ELSE IF w = "you" THEN "You"
    ELSE IF w = "know" THEN "Know"
    ELSE IF w = "i" THEN "I"
    ELSE IF w = "ok." THEN "Ok."
    ELSE w

\* The word ends with a period.
EndsSentence(w) == w = "ok." \/ w = "Ok."

\* improve_grammar, lines 471-487, on words joined by single blanks: the
\* first letter of the text and the lower-case letter after ". " are made
\* upper case, and the word i becomes I.  No word here begins with a
\* punctuation mark, so line 482 finds nothing, and lines 481 and 487
\* have no whitespace to remove.
improve_grammar(words) ==
    [j \in 1..Len(words) |->
        IF j = 1 THEN upper(words[j])
        ELSE IF EndsSentence(words[j - 1]) THEN upper(words[j])
        ELSE IF words[j] = "i" THEN "I"
        ELSE words[j]]

\* clean_text, lines 420-467; remove_fillers is REMOVE_FILLER_WORDS.
clean_text(text, remove_fillers) ==
    IF text = <<>> THEN <<>>
    ELSE improve_grammar(IF remove_fillers
                         THEN RemoveFillers(split(text), 1)
                         ELSE split(text))

(***************************************************************************)
(* SpecPipe: one run of _process_audio from line 619 on, the file saved.   *)
(* pipe.results are the outcomes of the calls of the backend, pipe.cleaned *)
(* the results of the cleanup passes, pipe.typed the texts handed to       *)
(* type_text.  pipe.file is the temporary file of the run on disk and      *)
(* pipe.tracked whether its name is in self.temp_files: save_audio_to_file *)
(* created the file and added the name (lines 668-672).                    *)
(***************************************************************************)
SavedPipe(remove_fillers) ==
    [pc |-> "transcribe", remove_fillers |-> remove_fillers,
     results |-> <<>>, text |-> <<>>, cleaned |-> <<>>, typed |-> <<>>,
     outcome |-> "none", file |-> "exists", tracked |-> TRUE]

InitPipe ==
    /\ InitMgr /\ InitListening /\ InitApp /\ hotkeys = AppHotkeys
    /\ clock = 0
    /\ InitRest
    /\ pipe \in {SavedPipe(b) : b \in BOOLEAN}

\* A faulty stop condition: one attempt more.
Exhausted_OneMore(attempts) == attempts > TranscribeAttempts

\* line 640: stop_after_attempt(3).
Exhausted(attempts) == attempts >= TranscribeAttempts

\* transcribe_audio, one attempt (lines 643-663): the backend returns a
\* text, or the attempt raises.  After a failed attempt @retry waits and
\* calls again, or, with the attempts exhausted, raises RetryError, which
\* the except clause of _process_audio logs (lines 634-635).  The attempt
\* opens the file (line 647): without the file it raises.  transcripts are
\* the texts the backend may return.
transcribe_audio(transcripts) ==
    /\ pipe.pc = "transcribe"
    /\ \/ /\ pipe.file = "exists"
          /\ \E t \in transcripts :
                pipe' = [pipe EXCEPT !.results = Append(@, "ok"), !.text = t,
                                     !.pc = "check"]
       \/ pipe' = IF Exhausted(Len(pipe.results) + 1)
                  THEN [pipe EXCEPT !.results = Append(@, "fail"),
                                    !.pc = "done",
                                    !.outcome = "TranscriptionFailed"]
                  ELSE [pipe EXCEPT !.results = Append(@, "fail")]
    /\ UNCHANGED <<mgrVars, appVars, clock, typing, setup, reads>>

Transcribe == transcribe_audio(Texts)

\* lines 621-623.
CheckText ==
    /\ pipe.pc = "check"
    /\ pipe' = IF pipe.text = <<>>
               THEN [pipe EXCEPT !.pc = "done", !.outcome = "NoText"]
               ELSE [pipe EXCEPT !.pc = "clean"]
    /\ UNCHANGED <<mgrVars, appVars, clock, typing, setup, reads>>

\* line 626.
CleanText ==
    /\ pipe.pc = "clean"
    /\ pipe' = [pipe EXCEPT
                  !.cleaned = Append(@, clean_text(pipe.text,
                                                   pipe.remove_fillers)),
                  !.pc = "type"]
    /\ UNCHANGED <<mgrVars, appVars, clock, typing, setup, reads>>

\* A faulty test of line 629: the text typed whatever it is.
Truthy_Always(cleaned_text) == TRUE

\* line 629: if cleaned_text.
Truthy(cleaned_text) == cleaned_text # <<>>

\* lines 629-632: type_text is called with the cleaned text, and catches
\* what goes wrong in it (lines 758-762).
TypeText ==
    /\ pipe.pc = "type"
    /\ pipe' = IF Truthy(pipe.cleaned[1])
               THEN [pipe EXCEPT !.typed = Append(@, pipe.cleaned[1]),
                                 !.pc = "done", !.outcome = "Typed"]
               ELSE [pipe EXCEPT !.pc = "done",
                                 !.outcome = "EmptyAfterCleanup"]
    /\ UNCHANGED <<mgrVars, appVars, clock, typing, setup, reads>>

\* lines 636-638: the finally clause of _process_audio passes; the file and
\* its name in temp_files are left to cleanup().  cleanup(), lines 823-829,
\* at shutdown: every file of temp_files that exists is removed; the set
\* keeps its names.  The processing thread is a daemon thread and may still
\* run then.
RemoveTempFiles ==
    /\ pipe.pc # "none"
    /\ pipe.file = "exists"
    /\ pipe' = [pipe EXCEPT !.file = "deleted"]
    /\ UNCHANGED <<mgrVars, appVars, clock, typing, setup, reads>>

NextPipe ==
    Transcribe \/ CheckText \/ CleanText \/ TypeText \/ RemoveTempFiles

SpecPipe == InitPipe /\ [][NextPipe]_vars

(***************************************************************************)
(* SpecType: one call of type_text (lines 690-762).  typing.attempts are   *)
(* the methods tried so far and whether each one succeeded, typing.chars   *)
(* the outcome of each character of the per-character method and           *)
(* typing.typed the characters it typed.                                   *)
(***************************************************************************)
Chars == {"a", "e_acute"}

\* str.isascii() of one character.
isascii(char) == char = "a"

\* The texts handed to type_text: line 629 lets no empty text through.
TypedTexts == UNION {[1..n -> Chars] : n \in 1..MaxChars}

\* TYPING_METHOD after lower(): the three values the code knows and any
\* other one.
TypingMethods == {"auto", "clipboard", "direct", "other"}

InitType ==
    /\ InitMgr /\ InitListening /\ InitApp /\ hotkeys = AppHotkeys
    /\ clock = 0 /\ pipe = NoPipe /\ setup = NoSetup /\ reads = <<>>
    /\ typing \in {[pc |-> "call", text |-> t, typing_method |-> m,
                     interval_ok |-> b, attempts |-> <<>>, chars |-> <<>>,
                     typed |-> <<>>, outcome |-> "none"] :
                       t \in TypedTexts, m \in TypingMethods, b \in BOOLEAN}

\* lines 704-712: auto chooses the clipboard for a text with a non-ASCII
\* character and direct typing otherwise.
SelectMethod(typing_method, text) ==
    IF typing_method = "auto"
    THEN IF \E j \in 1..Len(text) : ~isascii(text[j])
         THEN "clipboard" ELSE "direct"
    ELSE typing_method

\* The block of the code a method name leads to: lines 714, 729 and, for
\* every other name, the loop of line 743.
BlockOf(typing_method) ==
    IF typing_method \in {"clipboard", "direct"} THEN typing_method
    ELSE "chars"

\* lines 692-712.  A TYPING_INTERVAL that is no number makes float() raise
\* at line 697, which the outer except clause logs (lines 758-762).
TypeBegin ==
    /\ typing.pc = "call"
    /\ typing' = IF typing.interval_ok
                 THEN [typing EXCEPT
                         !.pc = BlockOf(SelectMethod(typing.typing_method,
                                                     typing.text))]
                 ELSE [typing EXCEPT !.pc = "done", !.outcome = "logged"]
    /\ UNCHANGED <<mgrVars, appVars, clock, pipe, setup, reads>>

\* lines 714-727: copy and paste; success returns, a failure goes on with
\* typing_method = 'direct'.
TypeClipboard ==
    /\ typing.pc = "clipboard"
    /\ \E ok \in BOOLEAN :
          typing' = [typing EXCEPT
                       !.attempts = Append(@, [method |-> "clipboard",
                                               ok |-> ok]),
                       !.pc = IF ok THEN "done" ELSE "direct",
                       !.outcome = IF ok THEN "returned" ELSE @]
    /\ UNCHANGED <<mgrVars, appVars, clock, pipe, setup, reads>>

\* lines 729-739: pyautogui.write of the whole text; success returns, a
\* failure falls through to the loop.
TypeDirect ==
    /\ typing.pc = "direct"
    /\ \E ok \in BOOLEAN :
          typing' = [typing EXCEPT
                       !.attempts = Append(@, [method |-> "direct",
                                               ok |-> ok]),
                       !.pc = IF ok THEN "done" ELSE "chars",
                       !.outcome = IF ok THEN "returned" ELSE @]
    /\ UNCHANGED <<mgrVars, appVars, clock, pipe, setup, reads>>

\* line 742: the per-character method starts.
TypeCharsBegin ==
    /\ typing.pc = "chars"
    /\ typing' = [typing EXCEPT
                    !.attempts = Append(@, [method |-> "chars", ok |-> TRUE]),
                    !.pc = "char"]
    /\ UNCHANGED <<mgrVars, appVars, clock, pipe, setup, reads>>

\* A faulty except clause: the first failing character ends the loop.
AfterCharFailure_Break(t) == [t EXCEPT !.pc = "done", !.outcome = "returned"]

\* lines 751-754: continue.
AfterCharFailure(t) == t

\* lines 743-754: the next character is written or its write raises; line
\* 756 after the last one.
TypeChar ==
    /\ typing.pc = "char"
    /\ IF Len(typing.chars) < Len(typing.text)
       THEN LET char == typing.text[Len(typing.chars) + 1]
            IN  \/ typing' = [typing EXCEPT !.chars = Append(@, TRUE),
                                            !.typed = Append(@, char)]
                \/ typing' = AfterCharFailure(
                                [typing EXCEPT !.chars = Append(@, FALSE)])
       ELSE typing' = [typing EXCEPT !.pc = "done", !.outcome = "returned"]
    /\ UNCHANGED <<mgrVars, appVars, clock, pipe, setup, reads>>

NextType ==
    TypeBegin \/ TypeClipboard \/ TypeDirect \/ TypeCharsBegin \/ TypeChar

SpecType == InitType /\ [][NextType]_vars

(***************************************************************************)
(* HotkeyParser (lines 47-138).  A string is a sequence of characters, and *)
(* a hotkey string the sequence of the parts between its '+' signs, as     *)
(* split('+') returns them: the empty string is one empty part.            *)
(***************************************************************************)
Letters == <<"a", "b", "c", "d", "e", "f", "g", "h", "i", "j", "k", "l", "m">>
           \o <<"n", "o", "p", "q", "r", "s", "t", "u", "v", "w", "x", "y", "z">>

Capitals == <<"A", "B", "C", "D", "E", "F", "G", "H", "I", "J", "K", "L", "M">>
            \o <<"N", "O", "P", "Q", "R", "S", "T", "U", "V", "W", "X", "Y", "Z">>

Digits == <<"0", "1", "2", "3", "4", "5", "6", "7", "8", "9">>

\* str.lower(), str.strip() and str.isalnum() on these characters.
LowerCase ==
    [c \in {Capitals[j] : j \in 1..26} |->
        Letters[CHOOSE j \in 1..26 : Capitals[j] = c]]

lower_char(c) == IF c \in DOMAIN LowerCase THEN LowerCase[c] ELSE c

lower(str) == [j \in 1..Len(str) |-> lower_char(str[j])]

RECURSIVE lstrip(_)
lstrip(str) ==
    IF str # <<>> /\ Head(str) = " " THEN lstrip(Tail(str)) ELSE str

RECURSIVE rstrip(_)
rstrip(str) ==
    IF str # <<>> /\ str[Len(str)] = " "
    THEN rstrip(SubSeq(str, 1, Len(str) - 1))
    ELSE str

strip(str) == rstrip(lstrip(str))

Alphanumerics ==
    {Letters[j] : j \in 1..26} \cup {Capitals[j] : j \in 1..26}
    \cup {Digits[j] : j \in 1..10}

isalnum(c) == c \in Alphanumerics

\* int() of a string of digits.
RECURSIVE int(_)
int(str) ==
    IF str = <<>> THEN 0
    ELSE 10 * int(SubSeq(str, 1, Len(str) - 1))
         + (CHOOSE d \in 0..9 : Digits[d + 1] = str[Len(str)])

\* lines 51-61 and 63-72: the keys are named as pynput names them.
ModifierNames ==
    {<<"c", "t", "r", "l">>,
     <<"c", "o", "n", "t", "r", "o", "l">>,
     <<"a", "l", "t">>,
     <<"o", "p", "t", "i", "o", "n">>,
     <<"s", "h", "i", "f", "t">>,
     <<"c", "m", "d">>,
     <<"w", "i", "n">>,
     <<"s", "u", "p", "e", "r">>,
     <<"m", "e", "t", "a">>}

MODIFIER_MAP(name) ==
    IF name \in {<<"c", "t", "r", "l">>, <<"c", "o", "n", "t", "r", "o", "l">>}
    THEN "ctrl"
    ELSE IF name \in {<<"a", "l", "t">>, <<"o", "p", "t", "i", "o", "n">>}
    THEN "alt"
    ELSE IF name \in {<<"s", "h", "i", "f", "t">>}
    THEN "shift"
    ELSE "cmd"

SpecialNames ==
    {<<"s", "p", "a", "c", "e">>,
     <<"t", "a", "b">>,
     <<"e", "n", "t", "e", "r">>,
     <<"r", "e", "t", "u", "r", "n">>,
     <<"b", "a", "c", "k", "s", "p", "a", "c", "e">>,
     <<"d", "e", "l", "e", "t", "e">>,
     <<"e", "s", "c">>,
     <<"e", "s", "c", "a", "p", "e">>}

SPECIAL_KEYS_MAP(name) ==
    IF name \in {<<"s", "p", "a", "c", "e">>}
    THEN "space"
    ELSE IF name \in {<<"t", "a", "b">>}
    THEN "tab"
    ELSE IF name \in {<<"e", "n", "t", "e", "r">>, <<"r", "e", "t", "u", "r", "n">>}
    THEN "enter"
    ELSE IF name \in {<<"b", "a", "c", "k", "s", "p", "a", "c", "e">>}
    THEN "backspace"
    ELSE IF name \in {<<"d", "e", "l", "e", "t", "e">>}
    THEN "delete"
    ELSE "esc"

\* KeyCode.from_vk(vk) for the virtual key codes of F1..F24, and
\* KeyCode.from_char.
VirtualKeys ==
    <<"vk112", "vk113", "vk114", "vk115", "vk116", "vk117", "vk118", "vk119",
      "vk120", "vk121", "vk122", "vk123", "vk124", "vk125", "vk126", "vk127",
      "vk128", "vk129", "vk130", "vk131", "vk132", "vk133", "vk134", "vk135">>

from_vk(vk) == VirtualKeys[vk - 111]

from_char(c) == c

\* line 110: re.match(r'^f([1-9]|1[0-9]|2[0-4])$', key_string).
MatchesFunctionKey(str) ==
    /\ Len(str) \in {2, 3}
    /\ str[1] = "f"
    /\ IF Len(str) = 2
       THEN \E d \in 1..9 : str[2] = Digits[d + 1]
       ELSE \/ str[2] = "1" /\ \E d \in 0..9 : str[3] = Digits[d + 1]
            \/ str[2] = "2" /\ \E d \in 0..4 : str[3] = Digits[d + 1]

\* A faulty _parse_single_key: what it does not know is taken for a key.
_parse_single_key_Lenient(key_string) ==
    LET str == strip(lower(key_string))
    IN  IF str \in ModifierNames THEN MODIFIER_MAP(str)
        ELSE IF str \in SpecialNames THEN SPECIAL_KEYS_MAP(str)
        ELSE IF MatchesFunctionKey(str) THEN from_vk(111 + int(Tail(str)))
        ELSE IF Len(str) = 1 /\ isalnum(str[1]) THEN from_char(str[1])
        ELSE "unknown"

\* _parse_single_key, lines 97-120; "None" is None.
_parse_single_key(key_string) ==
    LET str == strip(lower(key_string))
    IN  IF str \in ModifierNames THEN MODIFIER_MAP(str)
        ELSE IF str \in SpecialNames THEN SPECIAL_KEYS_MAP(str)
        ELSE IF MatchesFunctionKey(str) THEN from_vk(111 + int(Tail(str)))
        ELSE IF Len(str) = 1 /\ isalnum(str[1]) THEN from_char(str[1])
        ELSE "None"

\* What parse_hotkey returns: None or a set of keys.
None == [ok |-> FALSE, keys |-> {}]

Parsed(keys) == [ok |-> TRUE, keys |-> keys]

EmptyString == << <<>> >>

\* parse_hotkey, lines 75-94.
parse_hotkey(hotkey_string) ==
    IF hotkey_string = EmptyString THEN None
    ELSE LET parts == [j \in 1..Len(hotkey_string) |->
                          lower(strip(hotkey_string[j]))]
             keys == {_parse_single_key(parts[j]) : j \in 1..Len(parts)}
         IN  IF "None" \in keys \/ keys = {} THEN None ELSE Parsed(keys)

\* validate_hotkey, lines 122-138: the verdict and its reason.
validate_hotkey(hotkey_string) ==
    IF hotkey_string = EmptyString
    THEN <<FALSE, "Hotkey string cannot be empty">>
    ELSE LET keys == parse_hotkey(hotkey_string)
         IN  IF ~keys.ok THEN <<FALSE, "Invalid hotkey format">>
             ELSE IF Cardinality(keys.keys) = 0
             THEN <<FALSE, "No valid keys found in hotkey string">>
             ELSE IF Cardinality(keys.keys) > MaxKeys
             THEN <<FALSE, "Too many keys in combination (maximum 4)">>
             ELSE <<TRUE, "Valid hotkey">>

\* lines 167-174: self.hotkeys[key_set] = {...}: a key set already in the
\* table keeps its place and gets the new entry.
Stored(table, keys, on_press, on_release) ==
    IF \E i \in 1..Len(table) : table[i].keys = keys
    THEN [i \in 1..Len(table) |->
            IF table[i].keys = keys
            THEN Registration(keys, on_press, on_release)
            ELSE table[i]]
    ELSE Append(table, Registration(keys, on_press, on_release))

\* register_hotkey, lines 159-176: the table after the call and what the
\* call returns.
register_hotkey(table, hotkey_string, on_press, on_release) ==
    LET keys == parse_hotkey(hotkey_string)
    IN  IF ~keys.ok THEN [hotkeys |-> table, returned |-> FALSE]
        ELSE [hotkeys |-> Stored(table, keys.keys, on_press, on_release),
              returned |-> TRUE]

(***************************************************************************)
(* SpecRegister: register_hotkey called with a hotkey string, on an empty  *)
(* table and on the table of the application.                              *)
(***************************************************************************)
\* The parts of the hotkey strings: names, one of them an alias in capitals
\* and between blanks, a character, function keys inside and outside
\* f1..f24, and the empty part.
RawParts ==
    {<<" ", "C", "o", "n", "t", "r", "o", "l", " ">>,
     <<"a", "l", "t">>,
     <<"s", "h", "i", "f", "t">>,
     <<"X">>,
     <<"f", "2", "4">>,
     <<"f", "2", "5">>,
     <<>>}

HotkeyStrings == UNION {[1..n -> RawParts] : n \in 1..MaxParts}

InitRegister ==
    /\ InitMgr /\ InitListening /\ InitApp /\ hotkeys \in {<<>>, AppHotkeys}
    /\ clock = 0 /\ pipe = NoPipe /\ typing = NoTyping /\ reads = <<>>
    /\ setup \in {[pc |-> "register", hotkey_string |-> str,
                    returned |-> FALSE] : str \in HotkeyStrings}

RegisterCall ==
    /\ setup.pc = "register"
    /\ LET call == register_hotkey(hotkeys, setup.hotkey_string,
                                   "on_press", "on_release")
       IN  /\ hotkeys' = call.hotkeys
           /\ setup' = [setup EXCEPT !.returned = call.returned,
                                     !.pc = "returned"]
    /\ UNCHANGED <<down, event, pressed_keys, log, listener, is_listening,
                   listeners, threads>>
    /\ UNCHANGED <<appVars, clock, pipe, typing, reads>>

NextRegister == RegisterCall

SpecRegister == InitRegister /\ [][NextRegister]_vars

(***************************************************************************)
(* SpecSetup: VoiceTranscriber.__init__ (lines 289-352) with the settings  *)
(* of the environment: the numeric settings, the audio initialisation and  *)
(* the hotkey.  setup.pc is the place in __init__, "ready" after it        *)
(* returned and "failed" after it raised setup.error.                      *)
(***************************************************************************)
\* A variable of the environment: not set, or set to a string.
Unset == [set |-> FALSE, value |-> <<>>]

SetTo(str) == [set |-> TRUE, value |-> str]

\* The values of the numeric settings: not set, a number, no number, empty.
NumericEnv == {Unset, SetTo(<<"6", "4">>), SetTo(<<"a", "b", "c">>), SetTo(<<>>)}

\* int() accepts a string of digits (and raises ValueError otherwise).
IsNumber(str) ==
    str # <<>> /\ \A j \in 1..Len(str) : \E d \in 0..9 : Digits[d + 1] = str[j]

\* int(os.getenv(name, default)), lines 301, 304, 305: the number, or
\* ValueError.
getenv_int(env, default) ==
    IF ~env.set THEN [ok |-> TRUE, value |-> default]
    ELSE IF IsNumber(env.value) THEN [ok |-> TRUE, value |-> int(env.value)]
    ELSE [ok |-> FALSE, value |-> 0]

\* 'alt', the default of line 319 and the fallback of lines 362 and 374.
Alt == << <<"a", "l", "t">> >>

\* The values of HOTKEY: the short strings and the strings of too many keys.
HotkeyEnv ==
    {str \in HotkeyStrings :
        \/ Len(str) <= 2
        \/ Cardinality(parse_hotkey(str).keys) > MaxKeys}

InitSetup ==
    /\ InitMgr /\ InitListening /\ InitApp /\ hotkeys = <<>>
    /\ clock = 0 /\ pipe = NoPipe /\ typing = NoTyping /\ reads = <<>>
    /\ setup = [pc |-> "settings", env |-> <<Unset, Unset, Unset>>,
                chunk |-> 0, rate |-> 0, record_seconds |-> 0,
                retry_count |-> 0, env_hotkey |-> Unset,
                hotkey_string |-> <<>>, error |-> "none"]

\* lines 301-305, with CHUNK_SIZE, SAMPLE_RATE and MAX_RECORDING_TIME as
\* the environment has them.
ReadSettings ==
    /\ setup.pc = "settings"
    /\ \E env \in NumericEnv \X NumericEnv \X NumericEnv :
          LET chunk == getenv_int(env[1], DefaultChunkSize)
              rate == getenv_int(env[2], DefaultSampleRate)
              record_seconds == getenv_int(env[3], DefaultRecordSeconds)
          IN  setup' = IF chunk.ok /\ rate.ok /\ record_seconds.ok
                       THEN [setup EXCEPT !.env = env, !.pc = "audio",
                                          !.chunk = chunk.value,
                                          !.rate = rate.value,
                                          !.record_seconds =
                                              record_seconds.value]
                       ELSE [setup EXCEPT !.env = env, !.pc = "failed",
                                          !.error = "ValueError"]
    /\ UNCHANGED <<mgrVars, appVars, clock, pipe, typing, reads>>

\* A faulty loop condition: one attempt more.
RetriesLeft_OneMore(retry_count) == retry_count <= MAX_RETRIES

\* lines 389 and 413: retry_count < MAX_RETRIES.
RetriesLeft(retry_count) == retry_count < MAX_RETRIES

\* _initialize_audio, lines 386-418, one pass of its loop: the device is
\* found and the test stream opens, and the function returns; or something
\* raises, and after the wait the loop goes on, or with no retry left the
\* exception is raised again.
AudioAttempt ==
    /\ setup.pc = "audio"
    /\ RetriesLeft(setup.retry_count)
    /\ \/ setup' = [setup EXCEPT !.pc = "hotkey"]
       \/ setup' = IF RetriesLeft(setup.retry_count + 1)
                   THEN [setup EXCEPT !.retry_count = @ + 1]
                   ELSE [setup EXCEPT !.retry_count = @ + 1,
                                      !.pc = "failed",
                                      !.error = "AudioInitFailed"]
    /\ UNCHANGED <<mgrVars, appVars, clock, pipe, typing, reads>>

\* line 319: os.getenv('HOTKEY', 'alt').
ReadHotkey ==
    /\ setup.pc = "hotkey"
    /\ \E env \in {Unset} \cup {SetTo(str) : str \in HotkeyEnv} :
          setup' = [setup EXCEPT !.env_hotkey = env, !.pc = "validate",
                                 !.hotkey_string =
                                     IF env.set THEN env.value ELSE Alt]
    /\ UNCHANGED <<mgrVars, appVars, clock, pipe, typing, reads>>

\* _setup_hotkey, lines 357-362.
SetupValidate ==
    /\ setup.pc = "validate"
    /\ setup' = IF validate_hotkey(setup.hotkey_string)[1]
                THEN [setup EXCEPT !.pc = "register"]
                ELSE [setup EXCEPT !.pc = "register", !.hotkey_string = Alt]
    /\ UNCHANGED <<mgrVars, appVars, clock, pipe, typing, reads>>

\* _setup_hotkey, lines 365-384: the registration, and after its failure
\* the registration of 'alt'.
SetupRegister ==
    /\ setup.pc = "register"
    /\ LET first == register_hotkey(hotkeys, setup.hotkey_string,
                                    "start_recording", "stop_recording")
           second == register_hotkey(hotkeys, Alt,
                                     "start_recording", "stop_recording")
       IN  IF first.returned
           THEN /\ hotkeys' = first.hotkeys
                /\ setup' = [setup EXCEPT !.pc = "ready"]
           ELSE /\ hotkeys' = second.hotkeys
                /\ setup' = IF second.returned
                            THEN [setup EXCEPT !.pc = "ready",
                                               !.hotkey_string = Alt]
                            ELSE [setup EXCEPT !.pc = "failed",
                                               !.hotkey_string = Alt,
                                               !.error = "NoHotkey"]
    /\ UNCHANGED <<down, event, pressed_keys, log, listener, is_listening,
                   listeners, threads>>
    /\ UNCHANGED <<appVars, clock, pipe, typing, reads>>

NextSetup ==
    ReadSettings \/ AudioAttempt \/ ReadHotkey \/ SetupValidate
    \/ SetupRegister

SpecSetup == InitSetup /\ [][NextSetup]_vars

(***************************************************************************)
(* SpecRetry: the two retry loops, _initialize_audio at start-up with the  *)
(* default settings and, in the application that got its audio, a run of   *)
(* the pipeline.  FairRetry adds that a loop that can go on does go on:    *)
(* every attempt returns or raises, and the waits between attempts are     *)
(* bounded (RETRY_WAIT_SECONDS, wait_exponential(max=10)).                 *)
(***************************************************************************)
InitRetry ==
    /\ InitMgr /\ InitListening /\ InitApp /\ hotkeys = <<>>
    /\ clock = 0 /\ pipe = NoPipe /\ typing = NoTyping /\ reads = <<>>
    /\ setup = [pc |-> "audio", env |-> <<Unset, Unset, Unset>>,
                chunk |-> DefaultChunkSize, rate |-> DefaultSampleRate,
                record_seconds |-> DefaultRecordSeconds,
                retry_count |-> 0, env_hotkey |-> Unset,
                hotkey_string |-> <<>>, error |-> "none"]

\* The transcripts of SpecRetry: none, a word, a filler.
RetryTexts == {<<>>, <<"hello">>, <<"Um,">>}

\* _process_audio, lines 612-619: a recording was saved and its run begins.
RunPipeline ==
    /\ setup.pc = "hotkey"
    /\ pipe = NoPipe
    /\ \E b \in BOOLEAN : pipe' = SavedPipe(b)
    /\ UNCHANGED <<mgrVars, appVars, clock, typing, setup, reads>>

RetryTranscribe == transcribe_audio(RetryTexts)

NextRetry ==
    \/ AudioAttempt \/ RunPipeline
    \/ RetryTranscribe \/ CheckText \/ CleanText \/ TypeText
    \/ RemoveTempFiles

SpecRetry == InitRetry /\ [][NextRetry]_vars

FairRetry == SpecRetry /\ WF_vars(NextRetry)

(***************************************************************************)
(* SpecHold: one hold of the hotkey from the press to the typed text: the  *)
(* threads of SpecTimed, and the run of the pipeline on the file the       *)
(* processing thread wrote.  FairHold adds that a thread that can take a   *)
(* step takes it, and that the calls of the backend return.                *)
(***************************************************************************)
\* The transcripts of SpecHold: none, a word, a filler, a filler and a word.
HoldTexts == RetryTexts \cup {<<"Um,", " ", "hello">>}

\* _process_audio, lines 612-619: save_audio_to_file returned the name of
\* the file and the run goes on with it.
HoldRun ==
    /\ proc[1].pc = "done"
    /\ pipe = NoPipe
    /\ \E b \in BOOLEAN : pipe' = SavedPipe(b)
    /\ UNCHANGED <<mgrVars, appVars, clock, typing, setup, reads>>

HoldTranscribe == transcribe_audio(HoldTexts)

NextHold ==
    \/ NextTimed
    \/ HoldRun \/ HoldTranscribe \/ CheckText \/ CleanText \/ TypeText

SpecHold == InitAppKeys /\ [][NextHold]_vars

FairHold == SpecHold /\ WF_vars(NextHold)

(***************************************************************************)
(* The hotkey state machine (SpecKeys).                                    *)
(***************************************************************************)
Regs == 1..Len(hotkeys)

\* The callbacks the step from the unprimed to the primed state dispatched.
NewLog == SubSeq(log', Len(log) + 1, Len(log'))

Dispatched(i, cb) ==
    Len(SelectSeq(NewLog, LAMBDA e : e.reg = i /\ e.cb = cb))

\* The callbacks dispatched so far for registration i, in order.
LogOf(i) == SelectSeq(log, LAMBDA e : e.reg = i)

\* C1: a press event adds the normalized key to pressed_keys; a registration
\* that is Idle and whose key set is then held becomes Active with exactly
\* one on_press dispatched; for a registration that is already Active, or
\* whose key set is not held, the press dispatches no on_press.
C1_PressEdgeFiresOnce ==
    [][event'.kind = "press" =>
         /\ pressed_keys' = pressed_keys \cup {_normalize_key(event'.key)}
         /\ \A i \in Regs :
              IF ~hotkeys[i].is_active /\ hotkeys[i].keys \subseteq pressed_keys'
              THEN hotkeys'[i].is_active /\ Dispatched(i, "on_press") = 1
              ELSE /\ hotkeys'[i].is_active = hotkeys[i].is_active
                   /\ Dispatched(i, "on_press") = 0]_vars

\* C1 witness: the single registration is Active after exactly one on_press,
\* and the last event was a further press, of a key outside the combination.
C1_Witness ==
    /\ Len(hotkeys) = 1
    /\ hotkeys[1].is_active
    /\ log = <<[reg |-> 1, cb |-> "on_press", fn |-> "on_press"]>>
    /\ event.kind = "press"
    /\ _normalize_key(event.key) \notin hotkeys[1].keys

\* C2: a release event removes the normalized key from pressed_keys; a
\* registration that is Active and whose key set is then no longer held
\* becomes Idle with exactly one on_release dispatched; for a registration
\* that is Idle, or still held, the release dispatches no on_release.
C2_ReleaseEdgeFiresOnce ==
    [][event'.kind = "release" =>
         /\ pressed_keys' = pressed_keys \ {_normalize_key(event'.key)}
         /\ \A i \in Regs :
              IF hotkeys[i].is_active /\ ~(hotkeys[i].keys \subseteq pressed_keys')
              THEN ~hotkeys'[i].is_active /\ Dispatched(i, "on_release") = 1
              ELSE /\ hotkeys'[i].is_active = hotkeys[i].is_active
                   /\ Dispatched(i, "on_release") = 0]_vars

\* C2 witness: ctrl+x was activated and released, and the last event was the
\* release of the remaining key, received while the registration was Idle.
C2_Witness ==
    /\ Len(hotkeys) = 1
    /\ hotkeys[1].keys = {"ctrl", "x"}
    /\ ~hotkeys[1].is_active
    /\ log = <<[reg |-> 1, cb |-> "on_press", fn |-> "on_press"],
               [reg |-> 1, cb |-> "on_release", fn |-> "on_release"]>>
    /\ event.kind = "release"
    /\ down = {}

\* C3: the callbacks dispatched for one registration alternate on_press,
\* on_release, on_press, ... beginning with on_press.
C3_CallbacksAlternate ==
    \A i \in Regs :
        \A j \in 1..Len(LogOf(i)) :
            LogOf(i)[j].cb = IF j % 2 = 1 THEN "on_press" ELSE "on_release"

\* C3 witness: a single registration went through two full holds.
C3_Witness ==
    /\ Len(hotkeys) = 1
    /\ Len(LogOf(1)) = 4
    /\ LogOf(1)[3].cb = "on_press"
    /\ LogOf(1)[4].cb = "on_release"

\* C12: the left and the right variant of a modifier normalize to the same
\* key: with x held and a ctrl+x registration Idle, the press of left ctrl
\* makes it Active with one on_press, and a release of right ctrl that
\* follows the press of left ctrl makes it Idle again with one on_release.
C12_LeftRightSameKey ==
    [][\A i \in Regs :
         (hotkeys[i].keys = {"ctrl", "x"} /\ "x" \in pressed_keys) =>
            /\ (/\ ~hotkeys[i].is_active
                /\ event' = [kind |-> "press", key |-> "ctrl_l"])
                  => /\ hotkeys'[i].is_active
                     /\ Dispatched(i, "on_press") = 1
            /\ (/\ hotkeys[i].is_active
                /\ event = [kind |-> "press", key |-> "ctrl_l"]
                /\ event' = [kind |-> "release", key |-> "ctrl_r"])
                  => /\ ~hotkeys'[i].is_active
                     /\ Dispatched(i, "on_release") = 1]_vars

\* C12 witness: ctrl+x went Active and Idle twice, the last time by the
\* release of right ctrl while x and left ctrl are still down.
C12_Witness ==
    /\ Len(hotkeys) = 1
    /\ hotkeys[1].keys = {"ctrl", "x"}
    /\ ~hotkeys[1].is_active
    /\ Len(log) = 4
    /\ log[4].cb = "on_release"
    /\ event = [kind |-> "release", key |-> "ctrl_r"]
    /\ down = {"x", "ctrl_l"}

\* C13: after each key event a normalized key is in pressed_keys if and
\* only if a physical key that normalizes to it is down.
C13_PressedKeysReflectDown ==
    \A key \in {_normalize_key(k) : k \in PhysKeys} :
        key \in pressed_keys <=> \E k \in down : _normalize_key(k) = key

\* C18: each registration is evaluated on its own key set: after every
\* event it is Active exactly if its keys are held, whatever the other
\* registration is, and every registration whose status the event changed
\* got its one callback, on_press or on_release.
C18_RegistrationsIndependent ==
    [][\A i \in Regs :
         /\ hotkeys'[i].keys = hotkeys[i].keys
         /\ hotkeys'[i].is_active = (hotkeys[i].keys \subseteq pressed_keys')
         /\ Dispatched(i, "on_press") =
               IF ~hotkeys[i].is_active /\ hotkeys'[i].is_active THEN 1 ELSE 0
         /\ Dispatched(i, "on_release") =
               IF hotkeys[i].is_active /\ ~hotkeys'[i].is_active THEN 1 ELSE 0]_vars

\* C18 witness: two registrations, the key set of one inside that of the
\* other, both Active, each after its on_press.
C18_Witness ==
    /\ Len(hotkeys) = 2
    /\ hotkeys[1].keys \subseteq hotkeys[2].keys
    /\ hotkeys[1].is_active /\ hotkeys[2].is_active
    /\ Len(LogOf(1)) = 1 /\ Len(LogOf(2)) = 1
    /\ event.kind = "press"

(***************************************************************************)
(* The recording sessions (SpecApp).  Session n is the n-th hold: capture  *)
(* thread rec[n] from the n-th on_press, stop thread stp[n] from the n-th  *)
(* on_release, processing thread proc[n] from stp[n].                      *)
(***************************************************************************)
Range(f) == {f[i] : i \in DOMAIN f}

\* The capture start of session n has taken effect: the stream was opened,
\* is_recording set and audio_frames reset.
StartEffective(n) ==
    rec[n].pc \in {"loop", "read", "finally", "findrop", "done"}
    /\ rec[n].exit # "OpenFailed"

\* stop_recording of session n has cleared is_recording.
StopCleared(n) == stp[n].pc \in {"cleanup", "drop", "check", "done"}

\* Capture thread n is inside a read on a usable stream.
Capturing(n) == rec[n].pc = "read" /\ streams[rec[n].s] = "open"

\* C4: for every hold, the capture start has taken effect (or the stream
\* could not be opened) before the matching stop_recording clears
\* is_recording.
C4_StartPrecedesStop ==
    \A n \in Sessions :
        StopCleared(n) => StartEffective(n) \/ rec[n].exit = "OpenFailed"

\* C5: never more than one capture loop is reading from the stream at the
\* same moment.
C5_OneCaptureLoop ==
    Cardinality({n \in Sessions : Capturing(n)}) <= 1

\* C6: the chunks of a session are submitted by at most one processing run.
C6_BlobConsumedOnce ==
    \A n \in Sessions :
        Cardinality({m \in Sessions : n \in Range(proc[m].blob)}) <= 1

\* C7: while the processing thread of session m has not yet written the
\* file, the list in audio_frames was not replaced by, and holds no chunk
\* of, a capture thread of a later session.
C7_FramesStableUntilSaved ==
    \A m \in Sessions :
        proc[m].pc \in {"save", "write"} =>
            /\ audio_frames.id <= m
            /\ \A i \in 1..Len(audio_frames.data) : audio_frames.data[i] <= m

\* C8: a session stopped with zero chunks captured starts no processing
\* thread.
C8_NoChunksNoProcessing ==
    \A m \in Sessions :
        stp[m].pc = "done" /\ rec[m].n = 0 => proc[m].pc = "none"

\* C9: the chunks of a session that ended with device loss or a read error
\* on its open stream are in no saved blob.
C9_AbortedNoBlob ==
    \A n \in Sessions :
        rec[n].exit \in {"DeviceLost", "StreamError"} =>
            \A m \in Sessions : n \notin Range(proc[m].blob)

\* C10: a capture thread that hit the memory ceiling read exactly the chunks
\* up to the one that crossed it and appends no more; when its
\* stop_recording then tests the frames it starts the processing thread, and
\* when that thread saves, the blob is made of exactly those chunks.
C10_MemoryLimitBlob ==
    [][\A n \in Sessions :
         rec[n].exit = "MemoryLimit" =>
            /\ rec[n].n = MaxMemoryChunks + 1
            /\ rec'[n].n = rec[n].n
            /\ (stp[n].pc = "check" /\ stp'[n].pc = "done") =>
                   proc'[n].pc = "save"
            /\ (proc[n].pc = "save" /\ proc'[n].pc # "save") =>
                   proc'[n].pc = "write"
            /\ (proc[n].pc = "write" /\ proc'[n].pc # "write") =>
                   proc'[n].blob = [i \in 1..(MaxMemoryChunks + 1) |-> n]]_vars

(***************************************************************************)
(* The listener and the callback threads (SpecListen).                     *)
(***************************************************************************)
\* The step is a call of stop_listening: the event it leaves is the stop, and
\* it is neither a key changing unheard nor a callback thread ending.
StopStep ==
    /\ event'.kind = "stop"
    /\ down' = down
    /\ ~(threads' # threads /\ Len(threads') = Len(threads))

\* C14: stop_listening can be called in every state, with or without a
\* listener, and again right after itself; after each call pressed_keys is
\* empty, every registration is Idle and is_listening is False.
C14_StopIdempotent ==
    /\ [](ENABLED StopListening)
    /\ [][StopStep =>
            /\ pressed_keys' = {}
            /\ \A i \in Regs : ~hotkeys'[i].is_active
            /\ ~is_listening'
            /\ listener' = 0]_vars

\* C14 witness: stop_listening was called with no listener left to stop,
\* after callbacks had been dispatched, and keys are still down.
C14_Witness ==
    /\ event = [kind |-> "stop", key |-> "none"]
    /\ Len(log) > 0
    /\ down # {}
    /\ pressed_keys = {}

\* C15: stop_listening dispatches no callback and starts no thread; it
\* empties pressed_keys and changes nothing of the registrations but
\* is_active, which becomes False.
C15_StopIsNoEdge ==
    [][StopStep =>
         /\ log' = log
         /\ threads' = threads
         /\ pressed_keys' = {}
         /\ Len(hotkeys') = Len(hotkeys)
         /\ \A i \in Regs :
               hotkeys'[i] = [hotkeys[i] EXCEPT !.is_active = FALSE]]_vars

\* C15 witness: a listener was stopped while a registration was Active:
\* its last callback is an on_press and it is Idle.
C15_Witness ==
    /\ event = [kind |-> "stop", key |-> "listener"]
    /\ \E i \in Regs :
          /\ LogOf(i) # <<>>
          /\ LogOf(i)[Len(LogOf(i))].cb = "on_press"
          /\ ~hotkeys[i].is_active

\* C16: start_listening on a manager that is listening changes neither
\* listener, is_listening, the listeners created, pressed_keys nor the
\* registrations; never is more than one listener running.
C16_StartWhileListeningNoOp ==
    [][/\ (event'.kind = "start" /\ is_listening) =>
            UNCHANGED <<listener, is_listening, listeners, pressed_keys,
                        hotkeys, log>>
       /\ Cardinality(RunningListeners') <= 1]_vars

\* C16 witness: start_listening was called while keys were held in
\* pressed_keys, so while the manager was listening.
C16_Witness ==
    /\ event.kind = "start"
    /\ pressed_keys # {}
    /\ \E i \in Regs : hotkeys[i].is_active
    /\ Cardinality(RunningListeners) = 1

\* C17: no callback body runs on the listener thread or under the lock, so
\* whatever the callback threads do (run on, return, raise) a running
\* listener can deliver every press, and the release of every key that is
\* down; and a key event delivered next to such threads updates
\* pressed_keys and starts one thread per callback dispatched, leaving the
\* other threads as they are.
C17_CallbacksNeverBlock ==
    /\ [](/\ ~LockHeld
          /\ RunningListeners # {} =>
                \A k \in ListenKeys :
                    /\ ENABLED DeliverPress(k)
                    /\ k \in down => ENABLED DeliverRelease(k))
    /\ [][event' # event =>
            /\ event'.kind = "press" =>
                  pressed_keys' = pressed_keys \cup {_normalize_key(event'.key)}
            /\ event'.kind = "release" =>
                  pressed_keys' = pressed_keys \ {_normalize_key(event'.key)}
            /\ Len(threads') = Len(log')
            /\ SubSeq(threads', 1, Len(threads)) = threads
            /\ \A j \in (Len(threads) + 1)..Len(threads') :
                  threads'[j] = [on |-> "daemon", st |-> "running"]]_vars

\* C17 witness: the first callback is still running and the second one
\* raised: the second edge was dispatched while the first callback ran.
C17_Witness ==
    /\ Len(threads) = 2
    /\ threads[1].st = "running"
    /\ threads[2].st = "raised"
    /\ event.kind \in {"press", "release"}
    /\ RunningListeners # {}

(***************************************************************************)
(* The time limit (SpecTimed).                                             *)
(***************************************************************************)
\* C11: with the hotkey still held, once the clock has passed
\* record_seconds the read that completes next ends the capture loop,
\* whatever its outcome, with reason TimeLimit when it delivered a chunk
\* below the memory ceiling; the chunks captured so far stay in
\* audio_frames.
C11_TimeLimitWithinOneTick ==
    [][\A n \in Sessions :
         (/\ rec[n].pc = "read" /\ rec'[n].pc # "read"
          /\ stp[n].pc = "none"
          /\ TimeUp) =>
            /\ rec'[n].pc = "finally"
            /\ (/\ Len(audio_frames'.data) > Len(audio_frames.data)
                /\ ~MemoryExceeded(rec'[n].n))
                  => rec'[n].exit = "TimeLimit"
            /\ SubSeq(audio_frames'.data, 1, Len(audio_frames.data))
                  = audio_frames.data]_vars

(***************************************************************************)
(* The processing pipeline (SpecPipe).                                     *)
(***************************************************************************)
\* C19: the backend is called at most 3 times for a file; a call is made
\* only after failures; two failures and a success give the text of the
\* third call; the run ends as a transcription failure exactly after three
\* failed calls, and then with no cleanup pass and no call of type_text.
C19_ThreeAttempts ==
    LET r == pipe.results
    IN  /\ Len(r) <= 3
        /\ \A j \in 1..(Len(r) - 1) : r[j] = "fail"
        /\ pipe.pc = "transcribe" => \A j \in 1..Len(r) : r[j] = "fail"
        /\ pipe.outcome = "TranscriptionFailed"
              <=> r = <<"fail", "fail", "fail">>
        /\ pipe.outcome = "TranscriptionFailed"
              => pipe.pc = "done" /\ pipe.cleaned = <<>> /\ pipe.typed = <<>>
        /\ r = <<"fail", "fail", "ok">>
              => pipe.pc # "transcribe" /\ pipe.outcome # "TranscriptionFailed"

\* C19 witness: the third call succeeded after two failures and its text
\* was typed.
C19_Witness ==
    /\ pipe.results = <<"fail", "fail", "ok">>
    /\ pipe.outcome = "Typed"
    /\ pipe.typed = <<clean_text(pipe.text, pipe.remove_fillers)>>

\* C20: type_text is called at most once per run and only with the
\* non-empty result of the cleanup pass; a finished run whose transcription
\* or cleaned text is empty has called it not at all, and one whose cleaned
\* text is not empty has called it once, with that text.
C20_InjectNonEmptyOnce ==
    LET cleaned == clean_text(pipe.text, pipe.remove_fillers)
    IN  /\ Len(pipe.typed) <= 1
        /\ \A j \in 1..Len(pipe.typed) :
              pipe.typed[j] # <<>> /\ pipe.cleaned = <<pipe.typed[j]>>
        /\ pipe.pc # "done" => pipe.typed = <<>>
        /\ (pipe.pc = "done" /\ pipe.outcome # "TranscriptionFailed") =>
              IF pipe.text # <<>> /\ cleaned # <<>>
              THEN pipe.typed = <<cleaned>>
              ELSE pipe.typed = <<>>

\* C20 witness: the backend returned words, all of them fillers; the
\* cleanup pass left nothing and nothing was typed.
C20_Witness ==
    /\ pipe.pc = "done"
    /\ split(pipe.text) # <<>>
    /\ pipe.cleaned = << <<>> >>
    /\ pipe.typed = <<>>
    /\ pipe.outcome = "EmptyAfterCleanup"

(***************************************************************************)
(* The temporary file of a run (SpecPipe).                                 *)
(***************************************************************************)
\* C21: when a run of the pipeline has ended, with the text typed, nothing
\* to type or the transcription failed, its temporary file is deleted and
\* its name is no longer in temp_files.
C21_TempFileReleased ==
    pipe.pc = "done" => pipe.file = "deleted" /\ ~pipe.tracked

(***************************************************************************)
(* The injection methods (SpecType).                                       *)
(***************************************************************************)
\* The chain of methods, and the place in it type_text starts from.
Chain == <<"clipboard", "direct", "chars">>

StartOf(t) ==
    LET block == BlockOf(SelectMethod(t.typing_method, t.text))
    IN  CHOOSE j \in 1..3 : Chain[j] = block

\* The characters of text whose write succeeded, in order.
RECURSIVE Written(_, _, _)
Written(text, chars, j) ==
    IF j > Len(chars) THEN <<>>
    ELSE (IF chars[j] THEN <<text[j]>> ELSE <<>>)
         \o Written(text, chars, j + 1)

\* C22: the methods are tried in the order clipboard, direct, per-character
\* from the selected one; a method is tried only after every earlier one of
\* the chain failed; the first success ends the call; the per-character
\* method attempts every character and skips the ones that fail; and the
\* call returns, whatever failed.
C22_FallbackChain ==
    LET a == typing.attempts
        start == StartOf(typing)
    IN  typing.pc # "none" =>
        /\ \A j \in 1..Len(a) : /\ start + j - 1 <= 3
                                /\ a[j].method = Chain[start + j - 1]
        /\ \A j \in 1..Len(a) : j < Len(a) => ~a[j].ok
        /\ (a # <<>> /\ a[Len(a)].ok /\ a[Len(a)].method # "chars")
              => /\ typing.pc = "done"
                 /\ typing.outcome = "returned"
                 /\ typing.chars = <<>>
        /\ typing.pc \in {"clipboard", "direct", "chars"}
              => /\ typing.pc = Chain[start + Len(a)]
                 /\ \A j \in 1..Len(a) : ~a[j].ok
        /\ (typing.chars # <<>> \/ typing.pc = "char")
              => a # <<>> /\ a[Len(a)].method = "chars"
        /\ Len(typing.chars) <= Len(typing.text)
        /\ typing.typed = Written(typing.text, typing.chars, 1)
        /\ (typing.pc = "done" /\ a # <<>> /\ a[Len(a)].method = "chars")
              => Len(typing.chars) = Len(typing.text)
        /\ typing.outcome \in {"none", "returned", "logged"}
        /\ typing.pc = "done" <=> typing.outcome # "none"
        /\ typing.outcome = "logged" => a = <<>>

\* C22 witness: the clipboard and the direct method failed, the
\* per-character method skipped the first character and typed the second.
C22_Witness ==
    /\ typing.pc = "done"
    /\ Len(typing.attempts) = 3
    /\ typing.chars = <<FALSE, TRUE>>
    /\ typing.typed = <<typing.text[2]>>

(***************************************************************************)
(* The parser and the registry (SpecRegister).                             *)
(***************************************************************************)
\* The names of the function keys f1..f24.
FunctionNames ==
    {<<"f", Digits[n + 1]>> : n \in 1..9}
    \cup {<<"f", Digits[(n \div 10) + 1], Digits[(n % 10) + 1]>> : n \in 10..24}

\* A part that, trimmed and in lower case, is no modifier name, no
\* special-key name, no function key and no single alphanumeric character.
Unrecognised(part) ==
    LET name == strip(lower(part))
    IN  /\ name \notin ModifierNames \cup SpecialNames \cup FunctionNames
        /\ ~(Len(name) = 1 /\ name[1] \in Alphanumerics)

HasUnrecognised(hotkey_string) ==
    \E j \in 1..Len(hotkey_string) : Unrecognised(hotkey_string[j])

\* C23: for a hotkey string with a part that is not recognised, the empty
\* part included, parse_hotkey fails as a whole, and register_hotkey
\* returns False and leaves the table as it was.
C23_UnrecognisedTokenRejected ==
    [][(setup.pc = "register" /\ HasUnrecognised(setup.hotkey_string)) =>
          /\ ~parse_hotkey(setup.hotkey_string).ok
          /\ ~setup'.returned
          /\ hotkeys' = hotkeys]_vars

\* C23 witness: f25 after two recognised parts was refused, the table of
\* the application as before.
C23_Witness ==
    /\ setup.pc = "returned"
    /\ Len(setup.hotkey_string) = 3
    /\ ~Unrecognised(setup.hotkey_string[1])
    /\ ~Unrecognised(setup.hotkey_string[2])
    /\ setup.hotkey_string[3] = <<"f", "2", "5">>
    /\ ~setup.returned
    /\ hotkeys = AppHotkeys

\* C24: every stored combination has between 1 and 4 keys: a string that
\* resolves to no key or to more than 4 distinct keys fails validation and
\* is not stored by register_hotkey.
C24_OneToFourKeys ==
    /\ \A i \in 1..Len(hotkeys) :
          Cardinality(hotkeys[i].keys) \in 1..MaxKeys
    /\ (setup.pc = "returned" /\ setup.returned)
          => validate_hotkey(setup.hotkey_string)[1]

(***************************************************************************)
(* The settings of the environment (SpecSetup).                            *)
(***************************************************************************)
\* What a numeric setting is to be: the number of the environment, and the
\* default where the environment has none or no number.
SettingOr(env, default) ==
    IF env.set /\ IsNumber(env.value) THEN int(env.value) ELSE default

\* C25: no value of the settings makes start-up fail.  With a hotkey string
\* that fails validation set-up ends with exactly one registration, the one
\* of 'alt'; with a numeric setting that is no number initialisation goes
\* on with the default of the setting.
C25_InvalidConfigFallsBack ==
    /\ setup.pc = "failed" => setup.error = "AudioInitFailed"
    /\ setup.pc \notin {"none", "settings", "failed"} =>
          /\ setup.chunk = SettingOr(setup.env[1], DefaultChunkSize)
          /\ setup.rate = SettingOr(setup.env[2], DefaultSampleRate)
          /\ setup.record_seconds
                = SettingOr(setup.env[3], DefaultRecordSeconds)
    /\ (setup.pc = "ready" /\ setup.env_hotkey.set
        /\ ~validate_hotkey(setup.env_hotkey.value)[1]) =>
          /\ Len(hotkeys) = 1
          /\ hotkeys[1].keys = {"alt"}
          /\ setup.hotkey_string = Alt

(***************************************************************************)
(* The retry loops (FairRetry).                                            *)
(***************************************************************************)
\* The attempts _initialize_audio has made: the failed ones, and the one
\* that succeeded.
AudioAttempts ==
    setup.retry_count + (IF setup.pc = "hotkey" THEN 1 ELSE 0)

\* The calls of the backend the run has made.
BackendCalls == IF pipe.pc = "none" THEN <<>> ELSE pipe.results

\* C30: _initialize_audio makes at most 3 attempts, has returned with the
\* first one that succeeded and raises after the third failure; the
\* transcription is called at most 3 times; and both loops end: start-up
\* leaves _initialize_audio and a run of the pipeline that began finishes.
C30_RetriesBounded ==
    /\ [](/\ AudioAttempts <= MAX_RETRIES
          /\ setup.pc = "audio" => setup.retry_count < MAX_RETRIES
          /\ setup.pc = "failed" <=> setup.retry_count = MAX_RETRIES
          /\ Len(BackendCalls) <= TranscribeAttempts
          /\ \A j \in 1..Len(BackendCalls) :
                BackendCalls[j] = "ok" => j = Len(BackendCalls))
    /\ <>(setup.pc \in {"hotkey", "failed"})
    /\ (pipe.pc # "none") ~> (pipe.pc = "done")

\* C30 witness: the audio came up with the third attempt, and the run
\* ended after three failed calls of the backend.
C30_Witness ==
    /\ setup.pc = "hotkey"
    /\ setup.retry_count = MAX_RETRIES - 1
    /\ pipe.pc = "done"
    /\ pipe.results = <<"fail", "fail", "fail">>

(***************************************************************************)
(* The capture loop and its stop (SpecTimed, SpecApp).                     *)
(***************************************************************************)
\* C27: after stop_recording of a session has cleared is_recording, the
\* capture loop of the session observes it within one tick: a read in
\* flight may complete, but the loop enters no further read, and the
\* capture thread of the session does not set the flag back to True, even
\* when the stop came before the thread had opened its stream.
C27_StopObservedWithinOneTick ==
    [][\A n \in Sessions :
         StopCleared(n) =>
            /\ ~(rec[n].pc = "setflag" /\ rec'[n].pc = "reset"
                 /\ is_recording')
            /\ ~(rec[n].pc = "loop" /\ rec'[n].pc = "read")]_vars

\* C28: when a capture thread has ended, for whatever reason, the stream it
\* opened is stopped and closed: no thread that is done leaves its stream
\* open.
C28_TeardownAlwaysHappens ==
    \A n \in Sessions : rec[n].pc = "done" => streams[n] # "open"

\* The step that ends a read of the capture thread.
ReadEnds == rec[1].pc = "read" /\ rec'[1].pc # "read"

\* C29: a read that raises the overflow error appends no chunk and leaves
\* the loop running, back at its while test, and a read that succeeds,
\* after an overflow too, has its chunk appended; a read that raises any
\* other error appends no chunk and ends the loop, and a loop that has ended
\* reads no more.
C29_OverflowSwallowed ==
    /\ [][ReadEnds =>
            LET outcome == reads'[Len(reads')]
            IN  /\ outcome = "overflow" =>
                      /\ audio_frames' = audio_frames
                      /\ rec'[1] = [rec[1] EXCEPT !.pc = "loop", !.s = 0]
                      /\ is_recording' = is_recording
                /\ outcome = "error" =>
                      /\ audio_frames' = audio_frames
                      /\ rec'[1].pc = "finally"
                      /\ rec'[1].exit \in {"StreamError", "StreamClosed"}
                /\ outcome = "data" =>
                      /\ audio_frames'.data = Append(audio_frames.data, 1)
                      /\ rec'[1].n = rec[1].n + 1]_vars
    /\ [][rec[1].pc \in {"finally", "findrop", "done"}
             => rec'[1].pc \notin {"loop", "read"} /\ reads' = reads]_vars

\* C29 witness: the read after an overflow returned a chunk, which is in
\* the frames.
C29_Witness ==
    /\ reads = <<"overflow", "data">>
    /\ rec[1].pc = "loop"
    /\ audio_frames = [id |-> 1, data |-> <<1>>]

(***************************************************************************)
(* One hold from the press to the typed text (FairHold).                   *)
(***************************************************************************)
\* The chunks read during the hold: as many as the memory ceiling of the
\* model lets through.
HoldChunks == MaxMemoryChunks

ChunksOfHold == [j \in 1..HoldChunks |-> 1]

\* The press started the capture, the loop has read the chunks of the hold
\* and is at its while test, and the release has stopped the capture:
\* stop_recording has just cleared the flag.
HoldReleased ==
    /\ Len(log) = 2 /\ log[1].cb = "on_press" /\ log[2].cb = "on_release"
    /\ rec[1].pc = "loop"
    /\ rec[1].n = HoldChunks
    /\ audio_frames = [id |-> 1, data |-> ChunksOfHold]
    /\ stp[1].pc = "cleanup"
    /\ ~is_recording

\* What holds from then on: no further chunk, no second capture, stop or
\* processing thread; the file written holds exactly the chunks of the
\* hold; the run of the pipeline begins after the file was written, the
\* transcript is cleaned, and type_text is called at most once, after the
\* cleanup pass, with the cleaned text.
HoldInOrder ==
    /\ rec[1].n = HoldChunks
    /\ audio_frames = [id |-> 1, data |-> ChunksOfHold]
    /\ rec[2].pc = "none" /\ stp[2].pc = "none" /\ proc[2].pc = "none"
    /\ Len(log) = 2
    /\ ~is_recording
    /\ proc[1].pc # "failed"
    /\ proc[1].pc # "none" => stp[1].pc = "done"
    /\ proc[1].pc = "done" => proc[1].blob = ChunksOfHold
    /\ pipe.pc # "none" =>
          /\ proc[1].pc = "done"
          /\ Len(pipe.typed) <= 1
          /\ pipe.typed # <<>> =>
                /\ pipe.pc = "done"
                /\ pipe.cleaned
                     = <<clean_text(pipe.text, pipe.remove_fillers)>>
                /\ pipe.typed = pipe.cleaned
          /\ (pipe.pc = "done" /\ pipe.outcome = "Typed")
                => pipe.typed # <<>>

Punctuation ==
    {".", ",", "!", "?", ";", ":", "\"", "(", ")", "[", "]", "{", "}"}

\* str.strip(chars).
RECURSIVE strip_chars(_, _)
strip_chars(str, chars) ==
    IF str # <<>> /\ Head(str) \in chars
    THEN strip_chars(Tail(str), chars)
    ELSE IF str # <<>> /\ str[Len(str)] \in chars
         THEN strip_chars(SubSeq(str, 1, Len(str) - 1), chars)
         ELSE str

\* str.split(): the pieces between the runs of blanks.
RECURSIVE str_split(_)
str_split(text) ==
    LET str == lstrip(text)
        blanks == {j \in 1..Len(str) : str[j] = " "}
        stop == IF blanks = {} THEN Len(str) + 1
                ELSE CHOOSE j \in blanks : \A k \in blanks : j <= k
    IN  IF str = <<>> THEN <<>>
        ELSE <<SubSeq(str, 1, stop - 1)>>
             \o str_split(SubSeq(str, stop, Len(str)))

\* ' '.join(words).
RECURSIVE join(_)
join(words) ==
    IF words = <<>> THEN <<>>
    ELSE IF Len(words) = 1 THEN words[1]
         ELSE words[1] \o <<" ">> \o join(Tail(words))

\* lines 328-332: the filler words of the constructor.
DefaultFillers ==
    {<<"u", "m">>,
     <<"u", "h">>,
     <<"e", "r">>,
     <<"a", "h">>,
     <<"l", "i", "k", "e">>,
     <<"y", "o", "u", " ", "k", "n", "o", "w">>,
     <<"s", "o">>,
     <<"w", "e", "l", "l">>,
     <<"h", "m", "m">>,
     <<"o", "k", "a", "y">>,
     <<"r", "i", "g", "h", "t">>,
     <<"a", "c", "t", "u", "a", "l", "l", "y">>,
     <<"b", "a", "s", "i", "c", "a", "l", "l", "y">>,
     <<"l", "i", "t", "e", "r", "a", "l", "l", "y">>,
     <<"i", " ", "m", "e", "a", "n">>,
     <<"s", "o", "r", "t", " ", "o", "f">>,
     <<"k", "i", "n", "d", " ", "o", "f">>,
     <<"y", "o", "u", " ", "s", "e", "e">>}


\* lines 335-338: the entries of CUSTOM_FILLER_WORDS, stripped, are added.
custom_list(custom_fillers) ==
    {strip(custom_fillers[j]) : j \in 1..Len(custom_fillers)}

load_filler_words(custom_fillers) ==
    IF custom_fillers # <<>>
    THEN DefaultFillers \cup custom_list(custom_fillers)
    ELSE DefaultFillers

\* line 445: the words of the window, stripped and lower-cased, joined.
phrase_lower(phrase_words) ==
    join([j \in 1..Len(phrase_words) |->
            lower(strip_chars(phrase_words[j], Punctuation))])

\* A faulty order of the window lengths: the shortest first.
filler_lengths_ShortestFirst == <<1, 2, 3>>

\* line 442: for filler_length in [3, 2, 1].
filler_lengths == <<3, 2, 1>>

\* lines 436-456: the scan from word i on; the first length of
\* filler_lengths whose window is a filler is skipped.
RECURSIVE remove_loop(_, _, _)
remove_loop(original_words, i, fillers) ==
    LET found ==
            {k \in 1..Len(filler_lengths) :
                /\ i + filler_lengths[k] - 1 <= Len(original_words)
                /\ phrase_lower(SubSeq(original_words, i,
                                       i + filler_lengths[k] - 1))
                   \in fillers}
        first == CHOOSE k \in found : \A other \in found : k <= other
    IN  IF i > Len(original_words) THEN <<>>
        ELSE IF found # {}
             THEN remove_loop(original_words,
                              i + filler_lengths[first], fillers)
             ELSE <<original_words[i]>>
                  \o remove_loop(original_words, i + 1, fillers)

\* str.upper() on one character.
UpperCase ==
    [c \in {Letters[j] : j \in 1..26} |->
        Capitals[CHOOSE j \in 1..26 : Letters[j] = c]]

upper_char(c) == IF c \in DOMAIN UpperCase THEN UpperCase[c] ELSE c

\* line 475: the first character in upper case.
capitalize_first(text) ==
    IF text = <<>> THEN text ELSE <<upper_char(text[1])>> \o Tail(text)

\* line 478: a lower-case letter after ". " in upper case.
capitalize_after_period(text) ==
    [j \in 1..Len(text) |->
        IF j > 2 /\ text[j - 2] = "." /\ text[j - 1] = " "
        THEN upper_char(text[j]) ELSE text[j]]

\* line 481: a run of blanks becomes one blank.
RECURSIVE collapse_blanks(_)
collapse_blanks(text) ==
    IF text = <<>> THEN <<>>
    ELSE IF Head(text) = " "
         THEN <<" ">> \o collapse_blanks(lstrip(text))
         ELSE <<Head(text)>> \o collapse_blanks(Tail(text))

\* line 482: the characters of the class [.!?,:;].
ClosingPunctuation == {".", "!", "?", ",", ":", ";"}

\* line 482: the blanks before one of these characters are removed.
RECURSIVE remove_blank_before_punctuation(_)
remove_blank_before_punctuation(text) ==
    IF text = <<>> THEN <<>>
    ELSE IF /\ Head(text) = " "
            /\ lstrip(text) # <<>>
            /\ Head(lstrip(text)) \in ClosingPunctuation
         THEN remove_blank_before_punctuation(lstrip(text))
         ELSE <<Head(text)>> \o remove_blank_before_punctuation(Tail(text))

\* \w of the regular expressions, on these characters.
IsWordChar(c) == isalnum(c) \/ c = "_"

\* line 485: an "i" between word boundaries becomes "I".
capitalize_i(text) ==
    [j \in 1..Len(text) |->
        IF /\ text[j] = "i"
           /\ (j = 1 \/ ~IsWordChar(text[j - 1]))
           /\ (j = Len(text) \/ ~IsWordChar(text[j + 1]))
        THEN "I" ELSE text[j]]

\* lines 469-487.
improve_grammar_str(text) ==
    IF text = <<>> THEN <<>>
    ELSE strip(capitalize_i(remove_blank_before_punctuation(
            collapse_blanks(capitalize_after_period(
                capitalize_first(text))))))

\* lines 420-467.
clean_text_str(text, remove_fillers, fillers) ==
    IF text = <<>> THEN <<>>
    ELSE LET original_words == str_split(text)
             cleaned_words ==
                 IF remove_fillers
                 THEN remove_loop(original_words, 1, fillers)
                 ELSE original_words
         IN  improve_grammar_str(join(cleaned_words))

\* The words of the transcripts: a word that contains the filler "so", a
\* filler with a capital and a comma, the words of the fillers "you know"
\* and "you know what", the pronoun and a lone exclamation mark (as in
\* "Bonjour !").
CleanWords ==
    {<<"s", "o", "r", "d", "i", "d">>, <<"S", "o", ",">>,
     <<"y", "o", "u">>, <<"k", "n", "o", "w">>, <<"w", "h", "a", "t">>,
     <<"i">>, <<"!">>}

WordLists == UNION {[1..n -> CleanWords] : n \in 0..MaxWords}

\* CUSTOM_FILLER_WORDS split at its commas: unset, or one phrase.
CustomFillers ==
    {<<>>, <<<<" ", "y", "o", "u", " ", "k", "n", "o", "w", " ",
              "w", "h", "a", "t">>>>}

\* The transcript the backend returned, and the settings of the filler
\* removal.
InitClean ==
    /\ InitMgr /\ InitListening /\ InitApp /\ hotkeys = AppHotkeys
    /\ clock = 0
    /\ InitRest
    /\ \E words \in WordLists, custom \in CustomFillers, flag \in BOOLEAN :
          pipe = [pc |-> "init", words |-> words, text |-> join(words),
                  custom_fillers |-> custom, remove_fillers |-> flag,
                  filler_words |-> {}, cleaned |-> <<>>]

\* lines 328-338 of __init__.
LoadFillers ==
    /\ pipe.pc = "init"
    /\ pipe' = [pipe EXCEPT !.pc = "loaded",
                            !.filler_words =
                                load_filler_words(pipe.custom_fillers)]
    /\ UNCHANGED <<mgrVars, appVars, clock, typing, setup, reads>>

\* line 626: cleaned_text = self.clean_text(text).
CleanCall ==
    /\ pipe.pc = "loaded"
    /\ pipe' = [pipe EXCEPT !.pc = "cleaned",
                            !.cleaned =
                                clean_text_str(pipe.text,
                                               pipe.remove_fillers,
                                               pipe.filler_words)]
    /\ UNCHANGED <<mgrVars, appVars, clock, typing, setup, reads>>

NextClean == LoadFillers \/ CleanCall

SpecClean == InitClean /\ [][NextClean]_vars

(***************************************************************************)
(* The filler removal of the cleanup pass (SpecClean).                     *)
(***************************************************************************)
\* Two tokens that differ in the case of their letters at most.
SameButCase(a, b) ==
    /\ Len(a) = Len(b)
    /\ \A j \in 1..Len(a) : lower_char(a[j]) = lower_char(b[j])

SameTokens(xs, ys) ==
    /\ Len(xs) = Len(ys)
    /\ \A j \in 1..Len(xs) : SameButCase(xs[j], ys[j])

\* The words at the positions of keep, in their order.
KeptWords(words, keep) ==
    LET idx == SelectSeq([j \in 1..Len(words) |-> j], LAMBDA j : j \in keep)
    IN  [k \in 1..Len(idx) |-> words[idx[k]]]

\* The windows <<start, length>> of 1 to 3 consecutive words whose
\* lower-cased, punctuation-stripped form is in the filler set.
FillerWindows(words, fillers) ==
    {w \in (1..Len(words)) \X (1..3) :
        /\ w[1] + w[2] - 1 <= Len(words)
        /\ phrase_lower(SubSeq(words, w[1], w[1] + w[2] - 1)) \in fillers}

PositionsOf(w) == w[1]..(w[1] + w[2] - 1)

\* The filler windows that are the longest at their position.
LongestWindows(words, fillers) ==
    {w \in FillerWindows(words, fillers) :
        \A v \in FillerWindows(words, fillers) :
            v[1] = w[1] => v[2] <= w[2]}

\* The dropped positions are those of disjoint filler windows, each the
\* longest at its position.
DroppedInWindows(words, keep, fillers) ==
    \E D \in SUBSET LongestWindows(words, fillers) :
        /\ UNION {PositionsOf(w) : w \in D} = (1..Len(words)) \ keep
        /\ \A v, w \in D : v # w => PositionsOf(v) \cap PositionsOf(w) = {}

IsSubstring(f, str) ==
    \E a \in 1..(Len(str) + 1 - Len(f)) : SubSeq(str, a, a + Len(f) - 1) = f

\* A word that is no filler and contains one.
ContainsFiller(word, fillers) ==
    LET form == lower(strip_chars(word, Punctuation))
    IN  form \notin fillers /\ \E f \in fillers : IsSubstring(f, form)

\* The words that contain a filler and stand in no filler window are kept.
SubstringsKept(words, keep, fillers) ==
    \A i \in 1..Len(words) :
        /\ ContainsFiller(words[i], fillers)
        /\ \A w \in FillerWindows(words, fillers) : i \notin PositionsOf(w)
        => i \in keep

\* The tokens with each token that begins with closing punctuation joined
\* to the token before it.
RECURSIVE Attached(_)
Attached(tokens) ==
    IF Len(tokens) < 2 THEN tokens
    ELSE LET before == Attached(SubSeq(tokens, 1, Len(tokens) - 1))
             last == tokens[Len(tokens)]
         IN  IF Head(last) \in ClosingPunctuation
             THEN [before EXCEPT ![Len(before)] = @ \o last]
             ELSE Append(before, last)

\* C31 as stated: the tokens of the cleaned text are, up to the case of
\* their letters, a subsequence of the tokens of the transcript; a token is
\* dropped only inside a window of 1 to 3 tokens whose lower-cased,
\* punctuation-stripped form is a filler, the longest such window at its
\* position; a token that only contains a filler is kept.
C31_SubsequenceOfTokens ==
    pipe.pc = "cleaned" =>
        \E keep \in SUBSET (1..Len(pipe.words)) :
            /\ SameTokens(str_split(pipe.cleaned),
                          KeptWords(pipe.words, keep))
            /\ DroppedInWindows(pipe.words, keep, pipe.filler_words)
            /\ SubstringsKept(pipe.words, keep, pipe.filler_words)

\* C31 amended: the same, up to the case of the letters and to the joining
\* of a kept token that begins with one of . ! ? , : ; to the kept token
\* before it.
C31_WordBoundaryMatching ==
    pipe.pc = "cleaned" =>
        \E keep \in SUBSET (1..Len(pipe.words)) :
            /\ SameTokens(str_split(pipe.cleaned),
                          Attached(KeptWords(pipe.words, keep)))
            /\ DroppedInWindows(pipe.words, keep, pipe.filler_words)
            /\ SubstringsKept(pipe.words, keep, pipe.filler_words)

\* "So, sordid !" is cleaned to "Sordid!": the filler is dropped, the word
\* that contains it is kept and the exclamation mark is joined to it.
C31_Witness ==
    /\ pipe.pc = "cleaned"
    /\ pipe.remove_fillers
    /\ pipe.words = <<<<"S", "o", ",">>, <<"s", "o", "r", "d", "i", "d">>,
                      <<"!">>>>
    /\ pipe.cleaned = <<"S", "o", "r", "d", "i", "d", "!">>

(***************************************************************************)
(* The Active flag and pressed_keys (SpecKeys).                            *)
(***************************************************************************)
\* C32: with the registrations fixed and the listener running, after each
\* key event every registration is Active exactly if its key set is a
\* subset of pressed_keys.
C32_ActiveIffKeysHeld ==
    event.kind # "none" =>
        \A i \in Regs :
            hotkeys[i].is_active <=> hotkeys[i].keys \subseteq pressed_keys

\* C32 witness: after a release, with a key still in pressed_keys, one
\* registration has gone Idle and another one is still Active.
C32_Witness ==
    /\ event.kind = "release"
    /\ pressed_keys # {}
    /\ \E i, j \in Regs :
          /\ hotkeys[i].is_active /\ hotkeys[i].keys \subseteq pressed_keys
          /\ ~hotkeys[j].is_active /\ Len(LogOf(j)) = 2
          /\ ~(hotkeys[j].keys \subseteq pressed_keys)

(***************************************************************************)
(* The teardown of one session and the stream of a later one (SpecApp).    *)
(***************************************************************************)
\* The step is part of the teardown of session n: the _cleanup_stream of
\* the finally block of its capture thread (line 568) or the one its
\* stop_recording runs after the wait (line 597).
TeardownStep(n) ==
    \/ rec[n].pc \in {"finally", "findrop"} /\ rec'[n] # rec[n]
    \/ stp[n].pc \in {"cleanup", "drop"} /\ stp'[n] # stp[n]

\* Session m is recording: its capture thread has opened its stream and set
\* the flag, has not left its loop, and its own stop has not come.
StillRecording(m) ==
    /\ rec[m].pc \in {"reset", "loop", "read"}
    /\ streams[m] = "open"
    /\ is_recording
    /\ ~StopCleared(m)

\* C33: the teardown of a session neither closes the stream of a later
\* session that is still recording nor sets the handle that refers to it to
\* None.
C33_TeardownSparesLaterSession ==
    [][\A n, m \in Sessions :
         n < m /\ TeardownStep(n) /\ StillRecording(m) =>
            /\ streams'[m] = streams[m]
            /\ stream = m => stream' = m]_vars

(***************************************************************************)
(* The recording flag and the capture loop (SpecTimed).                    *)
(***************************************************************************)
\* No capture thread is alive: none was started, or each has left its loop
\* and finished its finally block.
NoCaptureLoop == \A n \in Sessions : rec[n].pc \in {"none", "done"}

\* C34: whenever no capture loop is running, before the first start and
\* after a loop has ended for whatever reason, is_recording is False.
C34_FlagTracksLoop == NoCaptureLoop => ~is_recording

=============================================================================
